---------------------------- MODULE Spec2Model ----------------------------
(***************************************************************************)
(* Model of cppcliargs::parser (src/cppcliargs.hpp).                       *)
(*                                                                         *)
(* A char is a one-character string; a std::string / std::string_view /    *)
(* C string is a sequence of chars (<<"-","n">> is "-n", <<>> is "").       *)
(* An ArgValue (std::variant<int,bool,std::string>) is a record            *)
(* [t |-> "int" | "bool" | "str", v |-> value].  A std::map<char,X> is a   *)
(* function whose domain is the key set; std::set<char> is a set of chars. *)
(* argv is a sequence of strings, argv[1] being the program name (the      *)
(* code's argv[0]); argc is Len(argv).  Positions are 1-based, so the      *)
(* code's iterator args.begin()+1 is position 2.                           *)
(***************************************************************************)
EXTENDS Integers, Sequences, FiniteSets, TLC

VARIABLES
    config,                 \* the caller-supplied Config (history: what the constructor was given)
    defaults_,              \* parser::defaults_
    long_names_,            \* parser::long_names_
    required_,              \* parser::required_
    help_,                  \* parser::help_
    argv_,                  \* parser::argv_ (argc_ is Len(argv_))
    help_was_requested_,    \* parser::help_was_requested_
    pc,                     \* position of the operator() call: "idle", "loop", "done"
    call,                   \* locals of the running operator() call, and its outcome
    prev,                   \* the ParseResult the caller's previous call returned (history)
    answer,                 \* the last value a help_requested() or generate_help() call
                            \* returned to the caller: [op |-> the call, value |-> its result]
    cout,                   \* what the constructor and report_error() have written to
                            \* std::cout
    cerr,                   \* what report_error() has written to std::cerr
    pc2,                    \* position of the operator() call of a second, concurrent caller
    call2                   \* locals and outcome of the second caller's operator() call

vars == <<config, defaults_, long_names_, required_, help_, argv_,
          help_was_requested_, pc, call, prev, answer, cout, cerr, pc2, call2>>

schema == <<defaults_, long_names_, required_, help_, argv_, help_was_requested_>>

\* the second caller's call
caller2 == <<pc2, call2>>

\* the two output streams
streams == <<cout, cerr>>

-----------------------------------------------------------------------------
(* Characters *)

\* '\0', the value find_short_for_long returns for "not found"
NUL == "NUL"

\* ASCII codes: the order of std::map<char,...> and std::set<char>
Ord(c) ==
    CASE c = "+" -> 43 [] c = "-" -> 45
      [] c = "0" -> 48 [] c = "1" -> 49 [] c = "2" -> 50 [] c = "3" -> 51
      [] c = "4" -> 52 [] c = "5" -> 53 [] c = "6" -> 54 [] c = "7" -> 55
      [] c = "8" -> 56 [] c = "9" -> 57 [] c = "=" -> 61
      [] c = "T" -> 84
      [] c = "a" -> 97 [] c = "b" -> 98 [] c = "c" -> 99 [] c = "d" -> 100
      [] c = "e" -> 101 [] c = "f" -> 102 [] c = "h" -> 104 [] c = "i" -> 105
      [] c = "l" -> 108 [] c = "m" -> 109 [] c = "n" -> 110 [] c = "o" -> 111
      [] c = "p" -> 112 [] c = "r" -> 114 [] c = "s" -> 115 [] c = "t" -> 116
      [] c = "u" -> 117 [] c = "v" -> 118 [] c = "x" -> 120 [] c = "y" -> 121
      [] c = "z" -> 122

Digits == {"0", "1", "2", "3", "4", "5", "6", "7", "8", "9"}

\* the suffix of s starting at position i (s.substr(i-1) in the code's 0-based terms)
SubstrFrom(s, i) == SubSeq(s, i, Len(s))

\* std::string_view::find(c): the first position of c in s, or 0 for npos
Find(s, c) ==
    IF \E i \in 1..Len(s) : s[i] = c
    THEN CHOOSE i \in 1..Len(s) : s[i] = c /\ \A j \in 1..(i - 1) : s[j] # c
    ELSE 0

\* the keys of a std::map / std::set in iteration order (ascending char)
RECURSIVE KeysInOrder(_)
KeysInOrder(S) ==
    IF S = {} THEN <<>>
    ELSE LET m == CHOOSE k \in S : \A o \in S : Ord(k) <= Ord(o)
         IN  <<m>> \o KeysInOrder(S \ {m})

-----------------------------------------------------------------------------
(* ArgValue and ParseResult *)

IntV(i)  == [t |-> "int",  v |-> i]
BoolV(b) == [t |-> "bool", v |-> b]
StrV(s)  == [t |-> "str",  v |-> s]

\* std::expected<..., ParseErrorInfo> holding an error
Unexpected(error, argument, detail) ==
    [kind |-> "err", error |-> error, argument |-> argument, detail |-> detail,
     values |-> <<>>]

\* std::expected holding a value
Expected(v) ==
    [kind |-> "ok", error |-> "", argument |-> NUL, detail |-> <<>>, values |-> v]

\* no result yet (the call has not returned)
Running ==
    [kind |-> "running", error |-> "", argument |-> NUL, detail |-> <<>>, values |-> <<>>]

-----------------------------------------------------------------------------
(* Value coercion: parser::parse_value *)

INT_MAX == 2147483647
INT_MIN == -2147483647 - 1

\* The digit run of std::from_chars, base 10, from position i of s.  The
\* magnitude is accumulated as a non-positive number m so that INT_MIN is
\* reachable; lim is the lowest admissible value (INT_MIN for a negative
\* literal, -INT_MAX otherwise).  Every digit is consumed, also after the
\* value has left the range.  Result: [n digits consumed, m, over].
RECURSIVE DigitRun(_, _, _, _, _, _)
DigitRun(s, i, lim, m, over, n) ==
    IF i > Len(s) \/ s[i] \notin Digits
    THEN [n |-> n, m |-> m, over |-> over]
    ELSE LET d == Ord(s[i]) - 48
         IN  IF over \/ m < -214748364 \/ m * 10 < lim + d
             THEN DigitRun(s, i + 1, lim, m, TRUE, n + 1)
             ELSE DigitRun(s, i + 1, lim, m * 10 - d, FALSE, n + 1)

\* from_chars storing the nearest end of the range for a literal outside it
from_chars_Saturates(s) ==
    LET neg   == Len(s) >= 1 /\ s[1] = "-"
        start == IF neg THEN 2 ELSE 1
        run   == DigitRun(s, start, IF neg THEN INT_MIN ELSE -INT_MAX, 0, FALSE, 0)
    IN  IF run.n = 0
        THEN [ec |-> "invalid_argument", ptr |-> 1, val |-> 0]
        ELSE IF run.over
        THEN [ec |-> "ok", ptr |-> start + run.n,
              val |-> IF neg THEN INT_MIN ELSE INT_MAX]
        ELSE [ec |-> "ok", ptr |-> start + run.n,
              val |-> IF neg THEN run.m ELSE 0 - run.m]

\* std::from_chars(first, last, int&): an optional '-', then decimal digits.
\* ec is "ok", "invalid_argument" (no digit) or "result_out_of_range";
\* ptr is the position of the first character not consumed.
from_chars(s) ==
    LET neg   == Len(s) >= 1 /\ s[1] = "-"
        start == IF neg THEN 2 ELSE 1
        run   == DigitRun(s, start, IF neg THEN INT_MIN ELSE -INT_MAX, 0, FALSE, 0)
    IN  IF run.n = 0
        THEN [ec |-> "invalid_argument", ptr |-> 1, val |-> 0]
        ELSE IF run.over
        THEN [ec |-> "result_out_of_range", ptr |-> start + run.n, val |-> 0]
        ELSE [ec |-> "ok", ptr |-> start + run.n,
              val |-> IF neg THEN run.m ELSE 0 - run.m]

\* parse_value accepting "True" and "1" for true (a lenient boolean reader)
parse_value_Lenient(D, arg_char, value) ==
    LET default_val == D[arg_char]
    IN  IF default_val.t = "bool"
        THEN IF value \in {<<"t", "r", "u", "e">>, <<"T", "r", "u", "e">>, <<"1">>}
             THEN Expected(BoolV(TRUE))
             ELSE IF value = <<"f", "a", "l", "s", "e">> THEN Expected(BoolV(FALSE))
             ELSE Unexpected("InvalidBooleanValue", arg_char, value)
        ELSE IF default_val.t = "int"
        THEN LET r == from_chars(value)
             IN  IF r.ec # "ok" \/ r.ptr # Len(value) + 1
                 THEN Unexpected("InvalidIntegerValue", arg_char, value)
                 ELSE Expected(IntV(r.val))
        ELSE IF default_val.t = "str"
        THEN Expected(StrV(value))
        ELSE Unexpected("TypeMismatch", arg_char, <<>>)

\* parse_value accepting an integer literal on a partial match (no ptr check)
parse_value_PartialMatch(D, arg_char, value) ==
    LET default_val == D[arg_char]
    IN  IF default_val.t = "bool"
        THEN IF value = <<"t", "r", "u", "e">> THEN Expected(BoolV(TRUE))
             ELSE IF value = <<"f", "a", "l", "s", "e">> THEN Expected(BoolV(FALSE))
             ELSE Unexpected("InvalidBooleanValue", arg_char, value)
        ELSE IF default_val.t = "int"
        THEN LET r == from_chars(value)
             IN  IF r.ec # "ok"
                 THEN Unexpected("InvalidIntegerValue", arg_char, value)
                 ELSE Expected(IntV(r.val))
        ELSE IF default_val.t = "str"
        THEN Expected(StrV(value))
        ELSE Unexpected("TypeMismatch", arg_char, <<>>)

\* parse_value that validates the literal but stores it verbatim, as text
parse_value_Verbatim(D, arg_char, value) ==
    LET default_val == D[arg_char]
    IN  IF default_val.t = "bool"
        THEN IF value \in {<<"t", "r", "u", "e">>, <<"f", "a", "l", "s", "e">>}
             THEN Expected(StrV(value))
             ELSE Unexpected("InvalidBooleanValue", arg_char, value)
        ELSE IF default_val.t = "int"
        THEN LET r == from_chars(value)
             IN  IF r.ec # "ok" \/ r.ptr # Len(value) + 1
                 THEN Unexpected("InvalidIntegerValue", arg_char, value)
                 ELSE Expected(StrV(value))
        ELSE IF default_val.t = "str"
        THEN Expected(StrV(value))
        ELSE Unexpected("TypeMismatch", arg_char, <<>>)

\* parse_value without the std::string alternative: a text flag falls
\* through to the "Should never reach here" return
parse_value_NoText(D, arg_char, value) ==
    LET default_val == D[arg_char]
    IN  IF default_val.t = "bool"
        THEN IF value = <<"t", "r", "u", "e">> THEN Expected(BoolV(TRUE))
             ELSE IF value = <<"f", "a", "l", "s", "e">> THEN Expected(BoolV(FALSE))
             ELSE Unexpected("InvalidBooleanValue", arg_char, value)
        ELSE IF default_val.t = "int"
        THEN LET r == from_chars(value)
             IN  IF r.ec # "ok" \/ r.ptr # Len(value) + 1
                 THEN Unexpected("InvalidIntegerValue", arg_char, value)
                 ELSE Expected(IntV(r.val))
        ELSE Unexpected("TypeMismatch", arg_char, <<>>)

\* parse_value(arg_char, value): on success `values` holds the ArgValue
parse_value(D, arg_char, value) ==
    LET default_val == D[arg_char]
    IN  IF default_val.t = "bool"
        THEN IF value = <<"t", "r", "u", "e">> THEN Expected(BoolV(TRUE))
             ELSE IF value = <<"f", "a", "l", "s", "e">> THEN Expected(BoolV(FALSE))
             ELSE Unexpected("InvalidBooleanValue", arg_char, value)
        ELSE IF default_val.t = "int"
        THEN LET r == from_chars(value)
             IN  IF r.ec # "ok" \/ r.ptr # Len(value) + 1
                 THEN Unexpected("InvalidIntegerValue", arg_char, value)
                 ELSE Expected(IntV(r.val))
        ELSE IF default_val.t = "str"
        THEN Expected(StrV(value))
        ELSE Unexpected("TypeMismatch", arg_char, <<>>)

-----------------------------------------------------------------------------
(* Token shape: the first half of the loop body of parser::operator() *)

\* find_short_for_long: the first key, in map order, whose long name matches
find_short_for_long(L, long_name) ==
    LET ks == KeysInOrder(DOMAIN L)
        hits == {i \in 1..Len(ks) : L[ks[i]] = long_name}
    IN  IF hits = {} THEN NUL
        ELSE ks[CHOOSE i \in hits : \A j \in hits : i <= j]

\* what the loop body makes of one token before it looks at defaults_:
\* kind "skip" (continue), "unknown_long" (return UnknownArgument '-'),
\* or "flag" with arg_char, value_part and has_equals
Tok(kind, arg_char, value_part, has_equals) ==
    [kind |-> kind, arg_char |-> arg_char, value_part |-> value_part,
     has_equals |-> has_equals]

\* LongForm splitting the token at its last '=' instead of its first
LongForm_LastEquals(L, arg) ==
    LET long_arg   == SubstrFrom(arg, 3)
        eqs        == {i \in 1..Len(long_arg) : long_arg[i] = "="}
        equals_pos == IF eqs = {} THEN 0
                      ELSE CHOOSE i \in eqs : \A j \in eqs : j <= i
        long_name  == IF equals_pos # 0 THEN SubSeq(long_arg, 1, equals_pos - 1)
                      ELSE long_arg
        value_part == IF equals_pos # 0 THEN SubstrFrom(long_arg, equals_pos + 1)
                      ELSE <<>>
        arg_char   == find_short_for_long(L, long_name)
    IN  IF arg_char = NUL
        THEN Tok("unknown_long", NUL, value_part, equals_pos # 0)
        ELSE Tok("flag", arg_char, value_part, equals_pos # 0)

LongForm(L, arg) ==
    LET long_arg   == SubstrFrom(arg, 3)
        equals_pos == Find(long_arg, "=")
        long_name  == IF equals_pos # 0 THEN SubSeq(long_arg, 1, equals_pos - 1)
                      ELSE long_arg
        value_part == IF equals_pos # 0 THEN SubstrFrom(long_arg, equals_pos + 1)
                      ELSE <<>>
        arg_char   == find_short_for_long(L, long_name)
    IN  IF arg_char = NUL
        THEN Tok("unknown_long", NUL, value_part, equals_pos # 0)
        ELSE Tok("flag", arg_char, value_part, equals_pos # 0)

\* ShortForm with the inline value taken from the '=' on (substr(2) for substr(3))
ShortForm_KeepsEquals(arg) ==
    IF Len(arg) > 2 /\ arg[3] = "="
    THEN Tok("flag", arg[2], SubstrFrom(arg, 3), TRUE)
    ELSE Tok("flag", arg[2], <<>>, FALSE)

\* ShortForm taking the characters after the flag as its inline value (`-n5`)
ShortForm_RestIsValue(arg) ==
    IF Len(arg) > 2 /\ arg[3] = "="
    THEN Tok("flag", arg[2], SubstrFrom(arg, 4), TRUE)
    ELSE IF Len(arg) > 2
    THEN Tok("flag", arg[2], SubstrFrom(arg, 3), TRUE)
    ELSE Tok("flag", arg[2], <<>>, FALSE)

ShortForm(arg) ==
    IF Len(arg) > 2 /\ arg[3] = "="
    THEN Tok("flag", arg[2], SubstrFrom(arg, 4), TRUE)
    ELSE Tok("flag", arg[2], <<>>, FALSE)

\* Tokenize without the "--" alone check: the bare separator goes to the long form
Tokenize_NoSeparator(L, arg) ==
    IF Len(arg) = 0 \/ arg[1] # "-"
    THEN Tok("skip", NUL, <<>>, FALSE)
    ELSE IF Len(arg) >= 2 /\ arg[2] = "-"
    THEN LongForm(L, arg)
    ELSE IF Len(arg) >= 2
    THEN ShortForm(arg)
    ELSE Tok("skip", NUL, <<>>, FALSE)

Tokenize(L, arg) ==
    IF Len(arg) = 0 \/ arg[1] # "-"
    THEN Tok("skip", NUL, <<>>, FALSE)
    ELSE IF Len(arg) >= 2 /\ arg[2] = "-"
    THEN IF Len(arg) = 2 THEN Tok("skip", NUL, <<>>, FALSE)
         ELSE LongForm(L, arg)
    ELSE IF Len(arg) >= 2
    THEN ShortForm(arg)
    ELSE Tok("skip", NUL, <<>>, FALSE)

-----------------------------------------------------------------------------
(* parser::operator(): locals, one loop iteration, the required check *)

\* Locals with the result started from the defaults without the injected 'h'
Locals_NoHelpKey(D, args) ==
    [it        |-> 2,
     result    |-> [k \in DOMAIN D \ {"h"} |-> D[k]],
     seen_args |-> {},
     outcome   |-> Running,
     roles     |-> [i \in 1..Len(args) |-> IF i = 1 THEN "prog" ELSE "none"]]

\* Locals with the iterator started at the program name (begin() for begin() + 1)
Locals_FromProgram(D, args) ==
    [it        |-> 1,
     result    |-> D,
     seen_args |-> {},
     outcome   |-> Running,
     roles     |-> [i \in 1..Len(args) |-> IF i = 1 THEN "prog" ELSE "none"]]

\* The locals of a call: `it` is the loop iterator (a position of args),
\* result and seen_args are the code's locals, outcome is what the call
\* returns (Running until it returns).  roles is a history of what each
\* position of args was used as: "prog" (position 1), "none" (not examined),
\* "skip" (continue), "flag" (examined as a flag token) or "value" (consumed
\* as the value of the flag before it).
Locals(D, args) ==
    [it        |-> 2,
     result    |-> D,
     seen_args |-> {},
     outcome   |-> Running,
     roles     |-> [i \in 1..Len(args) |-> IF i = 1 THEN "prog" ELSE "none"]]

Return(st, role, out) ==
    [st EXCEPT !.outcome = out, !.roles[st.it] = role]

\* ConsumeNext that does not return on a failed coercion: the flag keeps its
\* value and the loop goes on after the consumed token
ConsumeNext_IgnoresError(D, args, st, arg_char) ==
    LET parse_result == parse_value(D, arg_char, args[st.it + 1])
        roles2 == [st.roles EXCEPT ![st.it] = "flag", ![st.it + 1] = "value"]
    IN  IF parse_result.kind = "err"
        THEN [st EXCEPT !.roles = roles2, !.it = st.it + 2]
        ELSE [st EXCEPT !.result[arg_char] = parse_result.values,
                        !.roles = roles2, !.it = st.it + 2]

\* ConsumeNext that also records the key a flag-shaped value spells in seen_args
ConsumeNext_MarksSeen(D, args, st, arg_char) ==
    LET value == args[st.it + 1]
        parse_result == parse_value(D, arg_char, value)
        roles2 == [st.roles EXCEPT ![st.it] = "flag", ![st.it + 1] = "value"]
        seen2 == IF Len(value) >= 2 /\ value[1] = "-"
                 THEN st.seen_args \cup {value[2]}
                 ELSE st.seen_args
    IN  IF parse_result.kind = "err"
        THEN [st EXCEPT !.outcome = parse_result, !.roles = roles2, !.it = st.it + 1]
        ELSE [st EXCEPT !.result[arg_char] = parse_result.values,
                        !.seen_args = seen2,
                        !.roles = roles2, !.it = st.it + 2]

\* the flag at `it` takes the next token as its value: ++it, parse_value
ConsumeNext(D, args, st, arg_char) ==
    LET parse_result == parse_value(D, arg_char, args[st.it + 1])
        roles2 == [st.roles EXCEPT ![st.it] = "flag", ![st.it + 1] = "value"]
    IN  IF parse_result.kind = "err"
        THEN [st EXCEPT !.outcome = parse_result, !.roles = roles2, !.it = st.it + 1]
        ELSE [st EXCEPT !.result[arg_char] = parse_result.values,
                        !.roles = roles2, !.it = st.it + 2]

\* has_equals: parse_value on the inline value_part
InlineValue(D, st, tk) ==
    LET parse_result == parse_value(D, tk.arg_char, tk.value_part)
    IN  IF parse_result.kind = "err"
        THEN Return(st, "flag", parse_result)
        ELSE [st EXCEPT !.result[tk.arg_char] = parse_result.values,
                        !.roles[st.it] = "flag", !.it = st.it + 1]

\* PresenceValue stepping over the next token as if it were the flag's value
PresenceValue_SkipsNext(st, arg_char) ==
    [st EXCEPT !.result[arg_char] = BoolV(TRUE),
               !.roles[st.it] = "flag", !.it = st.it + 2]

\* "Optional bool, presence means true"
PresenceValue(st, arg_char) ==
    [st EXCEPT !.result[arg_char] = BoolV(TRUE),
               !.roles[st.it] = "flag", !.it = st.it + 1]

\* TakesNext without the required_ test: every bool is set by presence
TakesNext_BoolNever(D, R, arg_char) ==
    D[arg_char].t # "bool"

\* whether a flag without inline value needs the next token: every type but
\* bool, and a bool that is required
TakesNext(D, R, arg_char) ==
    D[arg_char].t # "bool" \/ arg_char \in R

\* the detail of MissingValue: a text for a required bool, "" otherwise
MissingValueDetail(D, arg_char) ==
    IF D[arg_char].t = "bool"
    THEN <<"r","e","q","u","i","r","e","d"," ","b","o","o","l","e","a","n"," ",
           "n","e","e","d","s"," ","e","x","p","l","i","c","i","t"," ",
           "v","a","l","u","e">>
    ELSE <<>>

\* "Handle value based on type": the code after seen_args.insert(arg_char)
AcquireValue(D, R, args, st, tk) ==
    IF tk.has_equals
    THEN InlineValue(D, st, tk)
    ELSE IF ~TakesNext(D, R, tk.arg_char)
    THEN PresenceValue(st, tk.arg_char)
    ELSE IF st.it + 1 > Len(args)
    THEN Return(st, "flag",
                Unexpected("MissingValue", tk.arg_char,
                           MissingValueDetail(D, tk.arg_char)))
    ELSE ConsumeNext(D, args, st, tk.arg_char)

\* HandleFlag acquiring and coercing the value before the duplicate check
HandleFlag_ValueFirst(D, R, args, st, tk) ==
    IF tk.arg_char \notin DOMAIN D
    THEN Return(st, "flag", Unexpected("UnknownArgument", tk.arg_char, args[st.it]))
    ELSE LET got == AcquireValue(D, R, args,
                        [st EXCEPT !.seen_args = st.seen_args \cup {tk.arg_char}], tk)
         IN  IF got.outcome.kind = "err" THEN got
             ELSE IF tk.arg_char \in st.seen_args
             THEN Return(st, "flag", Unexpected("DuplicateArgument", tk.arg_char, <<>>))
             ELSE got

\* HandleFlag without the duplicate check: the later occurrence overwrites
HandleFlag_NoDupCheck(D, R, args, st, tk) ==
    IF tk.arg_char \notin DOMAIN D
    THEN Return(st, "flag", Unexpected("UnknownArgument", tk.arg_char, args[st.it]))
    ELSE AcquireValue(D, R, args,
                      [st EXCEPT !.seen_args = st.seen_args \cup {tk.arg_char}], tk)

\* the known / duplicate checks and the value of a flag-shaped token
HandleFlag(D, R, args, st, tk) ==
    IF tk.arg_char \notin DOMAIN D
    THEN Return(st, "flag", Unexpected("UnknownArgument", tk.arg_char, args[st.it]))
    ELSE IF tk.arg_char \in st.seen_args
    THEN Return(st, "flag", Unexpected("DuplicateArgument", tk.arg_char, <<>>))
    ELSE AcquireValue(D, R, args,
                      [st EXCEPT !.seen_args = st.seen_args \cup {tk.arg_char}], tk)

\* Step tagging an unknown long argument with '\0' (arg_char as it is) instead of '-'
Step_UnknownLongNul(D, L, R, args, st) ==
    LET tk == Tokenize(L, args[st.it])
    IN  IF tk.kind = "skip"
        THEN [st EXCEPT !.roles[st.it] = "skip", !.it = st.it + 1]
        ELSE IF tk.kind = "unknown_long"
        THEN Return(st, "flag", Unexpected("UnknownArgument", NUL, args[st.it]))
        ELSE HandleFlag(D, R, args, st, tk)

\* Step with a `continue` that does not advance the iterator
Step_SkipStays(D, L, R, args, st) ==
    LET tk == Tokenize(L, args[st.it])
    IN  IF tk.kind = "skip"
        THEN [st EXCEPT !.roles[st.it] = "skip"]
        ELSE IF tk.kind = "unknown_long"
        THEN Return(st, "flag", Unexpected("UnknownArgument", "-", args[st.it]))
        ELSE HandleFlag(D, R, args, st, tk)

\* Step reporting a missing required argument in preference to the failure
\* of the token at hand
Step_MissingFirst(D, L, R, args, st) ==
    LET tk  == Tokenize(L, args[st.it])
        got == IF tk.kind = "skip"
               THEN [st EXCEPT !.roles[st.it] = "skip", !.it = st.it + 1]
               ELSE IF tk.kind = "unknown_long"
               THEN Return(st, "flag", Unexpected("UnknownArgument", "-", args[st.it]))
               ELSE HandleFlag(D, R, args, st, tk)
        rs  == KeysInOrder(R)
        missing == {i \in 1..Len(rs) : rs[i] \notin got.seen_args}
    IN  IF got.outcome.kind = "err" /\ missing # {}
        THEN LET req == rs[CHOOSE i \in missing : \A j \in missing : i <= j]
             IN  [got EXCEPT !.outcome =
                     Unexpected("MissingRequiredArgument", req,
                                IF req \in DOMAIN L THEN L[req] ELSE <<>>)]
        ELSE got

\* one iteration of the for loop, at position st.it <= Len(args)
Step(D, L, R, args, st) ==
    LET tk == Tokenize(L, args[st.it])
    IN  IF tk.kind = "skip"
        THEN [st EXCEPT !.roles[st.it] = "skip", !.it = st.it + 1]
        ELSE IF tk.kind = "unknown_long"
        THEN Return(st, "flag", Unexpected("UnknownArgument", "-", args[st.it]))
        ELSE HandleFlag(D, R, args, st, tk)

\* CheckRequired without the loop over required_
CheckRequired_NoCheck(L, R, st) ==
    [st EXCEPT !.outcome = Expected(st.result)]

\* CheckRequired reporting the last missing key of required_ instead of the first
CheckRequired_LastMissing(L, R, st) ==
    LET rs == KeysInOrder(R)
        missing == {i \in 1..Len(rs) : rs[i] \notin st.seen_args}
    IN  IF missing # {}
        THEN LET req == rs[CHOOSE i \in missing : \A j \in missing : i >= j]
             IN  [st EXCEPT !.outcome =
                     Unexpected("MissingRequiredArgument", req,
                                IF req \in DOMAIN L THEN L[req] ELSE <<>>)]
        ELSE [st EXCEPT !.outcome = Expected(st.result)]

\* CheckRequired passing over the required keys that defaults_ does not declare
CheckRequired_DeclaredOnly(L, R, st) ==
    LET rs == KeysInOrder(R \cap DOMAIN st.result)
        missing == {i \in 1..Len(rs) : rs[i] \notin st.seen_args}
    IN  IF missing # {}
        THEN LET req == rs[CHOOSE i \in missing : \A j \in missing : i <= j]
             IN  [st EXCEPT !.outcome =
                     Unexpected("MissingRequiredArgument", req,
                                IF req \in DOMAIN L THEN L[req] ELSE <<>>)]
        ELSE [st EXCEPT !.outcome = Expected(st.result)]

\* "Check all required arguments are present", then the successful return
CheckRequired(L, R, st) ==
    LET rs == KeysInOrder(R)
        missing == {i \in 1..Len(rs) : rs[i] \notin st.seen_args}
    IN  IF missing # {}
        THEN LET req == rs[CHOOSE i \in missing : \A j \in missing : i <= j]
             IN  [st EXCEPT !.outcome =
                     Unexpected("MissingRequiredArgument", req,
                                IF req \in DOMAIN L THEN L[req] ELSE <<>>)]
        ELSE [st EXCEPT !.outcome = Expected(st.result)]

\* the whole call from the locals st on: the loop, then the required check
RECURSIVE Run(_, _, _, _, _)
Run(D, L, R, args, st) ==
    IF st.outcome.kind # "running" THEN st
    ELSE IF st.it <= Len(args) THEN Run(D, L, R, args, Step(D, L, R, args, st))
    ELSE CheckRequired(L, R, st)

\* operator()() on a parser with the given members
Parse(D, L, R, args) == Run(D, L, R, args, Locals(D, args)).outcome

-----------------------------------------------------------------------------
(* Construction and help detection *)

Help == <<"h", "e", "l", "p">>

\* has_help_request taking "--help" for a help request whatever long_names_ holds
has_help_request_AnyLong(L, args) ==
    \E i \in 2..Len(args) :
        \/ args[i] = <<"-", "h">>
        \/ args[i] = <<"-", "-">> \o Help

\* has_help_request(argc, argv) with long_names_ = L
has_help_request(L, args) ==
    \E i \in 2..Len(args) :
        \/ args[i] = <<"-", "h">>
        \/ /\ "h" \in DOMAIN L
           /\ L["h"] = Help
           /\ args[i] = <<"-", "-">> \o Help

\* the map m with m[k] = v (std::map::operator[] assignment)
MapSet(m, k, v) == [x \in DOMAIN m \cup {k} |-> IF x = k THEN v ELSE m[x]]

\* the members after parser(Config, argc, argv)
CtorDefaults(cfg) ==
    IF "h" \notin DOMAIN cfg.defaults
    THEN MapSet(cfg.defaults, "h", BoolV(FALSE))
    ELSE cfg.defaults

\* CtorLongNames registering "help" for 'h' whether or not the caller declared 'h'
CtorLongNames_Always(cfg) ==
    MapSet(cfg.long_names, "h", Help)

CtorLongNames(cfg) ==
    IF "h" \notin DOMAIN cfg.defaults
    THEN MapSet(cfg.long_names, "h", Help)
    ELSE cfg.long_names

\* std::string(n, ' ')
RECURSIVE Spaces(_)
Spaces(n) == IF n <= 0 THEN <<>> ELSE <<" ">> \o Spaces(n - 1)

\* the decimal digits of a number n <= 0, most significant first ("" for 0)
RECURSIVE DigitsOfNeg(_)
DigitsOfNeg(n) ==
    IF n = 0 THEN <<>>
    ELSE LET d == (10 - (n % 10)) % 10
         IN  DigitsOfNeg((n + d) \div 10)
             \o << <<"0", "1", "2", "3", "4", "5", "6", "7", "8", "9">>[d + 1] >>

\* std::to_string(int)
to_string(n) ==
    IF n = 0 THEN <<"0">>
    ELSE IF n < 0 THEN <<"-">> \o DigitsOfNeg(n)
    ELSE DigitsOfNeg(0 - n)

\* the line generate_help writes for the flag arg
HelpLine(D, L, R, H, arg) ==
    LET default_val == D[arg]
        names == IF arg \in DOMAIN L
                 THEN <<",", " ", "-", "-">> \o L[arg] \o Spaces(28 - (6 + Len(L[arg])))
                 ELSE Spaces(24)
        text  == IF arg \in DOMAIN H THEN H[arg]
                 ELSE IF default_val.t = "int" THEN <<"[", "i", "n", "t", "e", "g", "e", "r", "]">>
                 ELSE IF default_val.t = "bool" THEN <<"[", "b", "o", "o", "l", "e", "a", "n", "]">>
                 ELSE IF default_val.t = "str" THEN <<"[", "s", "t", "r", "i", "n", "g", "]">>
                 ELSE <<>>
        dflt  == IF default_val.t = "int"
                 THEN IF arg \notin R
                      THEN <<" ", "(", "d", "e", "f", "a", "u", "l", "t", ":", " ">> \o to_string(default_val.v) \o <<")">>
                      ELSE <<" ", "(", "r", "e", "q", "u", "i", "r", "e", "d", ")">>
                 ELSE IF default_val.t = "bool"
                 THEN IF arg \in R THEN <<" ", "(", "r", "e", "q", "u", "i", "r", "e", "d", ")">> ELSE <<>>
                 ELSE IF default_val.t = "str"
                 THEN IF arg \notin R
                      THEN IF default_val.v # <<>>
                           THEN <<" ", "(", "d", "e", "f", "a", "u", "l", "t", ":", " ", "\"">> \o default_val.v \o <<"\"", ")">>
                           ELSE <<>>
                      ELSE <<" ", "(", "r", "e", "q", "u", "i", "r", "e", "d", ")">>
                 ELSE <<>>
    IN  <<" ", " ", "-", arg>> \o names \o text \o dflt \o <<"\n">>

RECURSIVE HelpLines(_, _, _, _, _)
HelpLines(D, L, R, H, args) ==
    IF args = <<>> THEN <<>>
    ELSE HelpLine(D, L, R, H, Head(args)) \o HelpLines(D, L, R, H, Tail(args))

\* generate_help(program_name): the usage line, then one line per key of
\* defaults_ in ascending order
generate_help(D, L, R, H, program_name) ==
    <<"U", "s", "a", "g", "e", ":", " ">> \o program_name \o <<" ", "[", "O", "P", "T", "I", "O", "N", "S", "]", "\n", "\n", "O", "p", "t", "i", "o", "n", "s", ":", "\n">>
    \o HelpLines(D, L, R, H, KeysInOrder(DOMAIN D))

\* no accessor has been called yet
NoAnswer == [op |-> "none", value |-> FALSE]

Construct(cfg, args) ==
    /\ config = cfg
    /\ defaults_ = CtorDefaults(cfg)
    /\ long_names_ = CtorLongNames(cfg)
    /\ required_ = cfg.required
    /\ help_ = cfg.help
    /\ argv_ = args
    /\ help_was_requested_ = has_help_request(CtorLongNames(cfg), args)
    /\ pc = "idle"
    /\ call = Locals(CtorDefaults(cfg), args)
    /\ prev = Running
    /\ answer = NoAnswer
    /\ cout = IF has_help_request(CtorLongNames(cfg), args)
              THEN generate_help(CtorDefaults(cfg), CtorLongNames(cfg), cfg.required,
                                 cfg.help, args[1])
              ELSE <<>>
    /\ cerr = <<>>
    /\ pc2 = "idle"
    /\ call2 = Locals(CtorDefaults(cfg), args)

-----------------------------------------------------------------------------
(* Actions: a caller running operator()() on the constructed parser *)

\* ParseBegin with seen_args kept from the caller's previous call, as if it
\* were a member of the parser and not a local of operator()
ParseBegin_KeepsSeen ==
    /\ pc = "idle"
    /\ pc' = "loop"
    /\ call' = [Locals(defaults_, argv_) EXCEPT !.seen_args = call.seen_args]
    /\ UNCHANGED <<config, schema, prev, answer, streams, caller2>>

\* entry: ArgMap result = defaults_; std::set<char> seen_args; it = begin()+1
ParseBegin ==
    /\ pc = "idle"
    /\ pc' = "loop"
    /\ call' = Locals(defaults_, argv_)
    /\ UNCHANGED <<config, schema, prev, answer, streams, caller2>>

\* one iteration of the for loop; a failure returns from the call
ParseIter ==
    /\ pc = "loop"
    /\ call.it <= Len(argv_)
    /\ call' = Step(defaults_, long_names_, required_, argv_, call)
    /\ pc' = IF call'.outcome.kind = "running" THEN "loop" ELSE "done"
    /\ UNCHANGED <<config, schema, prev, answer, streams, caller2>>

\* ParseFinish recording in the mutable member help_was_requested_ that the
\* call has seen flag 'h'
ParseFinish_MarksHelp ==
    /\ pc = "loop"
    /\ call.it > Len(argv_)
    /\ call' = CheckRequired(long_names_, required_, call)
    /\ pc' = "done"
    /\ help_was_requested_' = (help_was_requested_ \/ "h" \in call.seen_args)
    /\ UNCHANGED <<config, defaults_, long_names_, required_, help_, argv_,
                   prev, answer, streams, caller2>>

\* the loop has ended: the required check and the return
ParseFinish ==
    /\ pc = "loop"
    /\ call.it > Len(argv_)
    /\ call' = CheckRequired(long_names_, required_, call)
    /\ pc' = "done"
    /\ UNCHANGED <<config, schema, prev, answer, streams, caller2>>

\* the caller has its ParseResult and may call again
ParseReturn ==
    /\ pc = "done"
    /\ pc' = "idle"
    /\ prev' = call.outcome
    /\ UNCHANGED <<config, schema, call, answer, streams, caller2>>

Next == ParseBegin \/ ParseIter \/ ParseFinish \/ ParseReturn

\* the caller asks help_requested() between two calls of operator()
HelpRequested ==
    /\ pc = "idle"
    /\ answer' = [op |-> "help_requested", value |-> help_was_requested_]
    /\ UNCHANGED <<config, schema, pc, call, prev, streams, caller2>>

\* the caller asks generate_help(argv[0]) between two calls of operator()
GenerateHelp ==
    /\ pc = "idle"
    /\ answer' = [op |-> "generate_help",
                  value |-> generate_help(defaults_, long_names_, required_, help_,
                                          argv_[1])]
    /\ UNCHANGED <<config, schema, pc, call, prev, streams, caller2>>

\* the callers' steps when help_requested() is among the calls made
NextHelp == Next \/ HelpRequested \/ GenerateHelp

-----------------------------------------------------------------------------
(* Error reporting: ParseErrorInfo::to_string and parser::report_error *)

\* error_message(error): the human-readable text of a ParseError
error_message(error) ==
    CASE error = "UnknownArgument" ->
           <<"U", "n", "k", "n", "o", "w", "n", " ", "a", "r", "g", "u", "m", "e", "n",
             "t">>
      [] error = "MissingRequiredArgument" ->
           <<"M", "i", "s", "s", "i", "n", "g", " ", "r", "e", "q", "u", "i", "r", "e",
             "d", " ", "a", "r", "g", "u", "m", "e", "n", "t">>
      [] error = "MissingValue" ->
           <<"M", "i", "s", "s", "i", "n", "g", " ", "v", "a", "l", "u", "e", " ", "f",
             "o", "r", " ", "a", "r", "g", "u", "m", "e", "n", "t">>
      [] error = "InvalidBooleanValue" ->
           <<"I", "n", "v", "a", "l", "i", "d", " ", "b", "o", "o", "l", "e", "a", "n",
             " ", "v", "a", "l", "u", "e", " ", "(", "e", "x", "p", "e", "c", "t", "e",
             "d", " ", "'", "t", "r", "u", "e", "'", " ", "o", "r", " ", "'", "f", "a",
             "l", "s", "e", "'", ")">>
      [] error = "InvalidIntegerValue" ->
           <<"I", "n", "v", "a", "l", "i", "d", " ", "i", "n", "t", "e", "g", "e", "r",
             " ", "v", "a", "l", "u", "e">>
      [] error = "TypeMismatch" ->
           <<"T", "y", "p", "e", " ", "m", "i", "s", "m", "a", "t", "c", "h">>
      [] error = "DuplicateArgument" ->
           <<"D", "u", "p", "l", "i", "c", "a", "t", "e", " ", "a", "r", "g", "u", "m",
             "e", "n", "t">>
      [] error = "InvalidArguments" ->
           <<"I", "n", "v", "a", "l", "i", "d", " ", "a", "r", "g", "u", "m", "e", "n",
             "t", "s">>
      [] OTHER ->
           <<"U", "n", "k", "n", "o", "w", "n", " ", "e", "r", "r", "o", "r">>

\* ParseErrorInfo::to_string(): the message, the key, and the detail when
\* there is one
ParseErrorInfo_to_string(info) ==
    error_message(info.error) \o <<" ", "f", "o", "r", " ", "'", "-">> \o <<info.argument>>
    \o <<"'">> \o (IF info.detail # <<>> THEN <<":", " ">> \o info.detail ELSE <<>>)

\* the cross mark U+274C report_error puts before the message, one character
\* of the text as NUL is
CrossMark == "U+274C"

\* how many reports a caller makes at most
MaxReports == 2

\* the reports written to std::cerr so far
Reports == Cardinality({i \in 1..Len(cerr) : cerr[i] = CrossMark})

\* the caller hands report_error() the ParseResult its last call of
\* operator() returned: a failure is written to std::cerr and the generated
\* help to std::cout; a success writes nothing
ReportError ==
    /\ pc = "idle"
    /\ prev.kind \in {"ok", "err"}
    /\ Reports < MaxReports
    /\ IF prev.kind = "err"
       THEN /\ cerr' = cerr \o <<CrossMark, " ">> \o ParseErrorInfo_to_string(prev)
                            \o <<"\n", "\n">>
            /\ cout' = cout \o generate_help(defaults_, long_names_, required_, help_,
                                             argv_[1])
       ELSE UNCHANGED streams
    /\ UNCHANGED <<config, schema, pc, call, prev, answer, caller2>>

\* the caller's steps when report_error() is among the calls made
NextReport == NextHelp \/ ReportError

-----------------------------------------------------------------------------

\* a second thread running operator()() on the same parser object: the same
\* code on that call's own locals
Parse2Begin ==
    /\ pc2 = "idle"
    /\ pc2' = "loop"
    /\ call2' = Locals(defaults_, argv_)
    /\ UNCHANGED <<config, schema, pc, call, prev, answer, streams>>

\* Parse2Iter with seen_args shared between the calls, as if it were a static
\* or a member and not a local of operator()
Parse2Iter_SharedSeen ==
    /\ pc2 = "loop"
    /\ call2.it <= Len(argv_)
    /\ call2' = Step(defaults_, long_names_, required_, argv_,
                     [call2 EXCEPT !.seen_args = call.seen_args \cup call2.seen_args])
    /\ pc2' = IF call2'.outcome.kind = "running" THEN "loop" ELSE "done"
    /\ call' = [call EXCEPT !.seen_args = call2'.seen_args]
    /\ UNCHANGED <<config, schema, pc, prev, answer, streams>>

Parse2Iter ==
    /\ pc2 = "loop"
    /\ call2.it <= Len(argv_)
    /\ call2' = Step(defaults_, long_names_, required_, argv_, call2)
    /\ pc2' = IF call2'.outcome.kind = "running" THEN "loop" ELSE "done"
    /\ UNCHANGED <<config, schema, pc, call, prev, answer, streams>>

Parse2Finish ==
    /\ pc2 = "loop"
    /\ call2.it > Len(argv_)
    /\ call2' = CheckRequired(long_names_, required_, call2)
    /\ pc2' = "done"
    /\ UNCHANGED <<config, schema, pc, call, prev, answer, streams>>

Parse2Return ==
    /\ pc2 = "done"
    /\ pc2' = "idle"
    /\ UNCHANGED <<config, schema, pc, call, prev, answer, streams, call2>>

\* the steps of two threads calling operator()() concurrently
NextConcurrent ==
    \/ Next
    \/ Parse2Begin \/ Parse2Iter \/ Parse2Finish \/ Parse2Return

-----------------------------------------------------------------------------
(* Inputs: the Configs and argument vectors the parser is constructed with *)

\* the largest number of tokens after the program name
MaxArgs == 3

Num  == <<"n", "u", "m">>
Verb == <<"v", "e", "r", "b">>

\* three optional flags of the three types, two with long names
CfgOpt ==
    [defaults   |-> ("n" :> IntV(5)) @@ ("v" :> BoolV(FALSE)) @@ ("f" :> StrV(<<>>)),
     long_names |-> ("n" :> Num) @@ ("v" :> Verb),
     required   |-> {},
     help       |-> ("n" :> <<"c", "o", "u", "n", "t">>)]

\* a required integer and a required boolean, both with long names
CfgReq ==
    [defaults   |-> ("n" :> IntV(5)) @@ ("v" :> BoolV(FALSE)) @@ ("f" :> StrV(<<>>)),
     long_names |-> ("n" :> Num) @@ ("v" :> Verb),
     required   |-> {"n", "v"},
     help       |-> <<>>]

\* a required text flag without long name, and a required integer with one
CfgReqF ==
    [defaults   |-> ("n" :> IntV(0)) @@ ("v" :> BoolV(TRUE)) @@ ("f" :> StrV(<<"x">>)),
     long_names |-> ("n" :> Num),
     required   |-> {"f", "n"},
     help       |-> <<>>]

\* the caller declares 'h' itself, as a text flag
CfgOwnH ==
    [defaults   |-> ("h" :> StrV(<<>>)) @@ ("n" :> IntV(0)),
     long_names |-> ("h" :> <<"h", "o", "s", "t">>) @@ ("n" :> Num),
     required   |-> {},
     help       |-> <<>>]

\* long_names and required name a key that defaults does not declare
CfgBad ==
    [defaults   |-> ("n" :> IntV(0)) @@ ("v" :> BoolV(FALSE)),
     long_names |-> ("x" :> <<"e", "x">>) @@ ("v" :> Verb),
     required   |-> {"x"},
     help       |-> <<>>]

\* parser(ArgMap defaults, argc, argv): defaults only
CfgPlain ==
    [defaults   |-> ("v" :> BoolV(TRUE)) @@ ("n" :> IntV(1)),
     long_names |-> <<>>,
     required   |-> {},
     help       |-> <<>>]

Configs == {CfgOpt, CfgReq, CfgReqF, CfgOwnH, CfgBad, CfgPlain}

Prog == <<"p">>

\* all token lists of at most m tokens of the pool P, after the program name
Argvs(P, m) == {<<Prog>> \o s : s \in UNION {[1..k -> P] : k \in 0..m}}

\* flags in every form, values, unknown flags
Pool ==
    { <<"-", "n">>, <<"-", "n", "=", "7">>, <<"-", "-">> \o Num \o <<"=", "7">>,
      <<"-", "v">>, <<"-", "-">> \o Verb, <<"-", "f">>,
      <<"7">>, <<"t", "r", "u", "e">>,
      <<"-", "x">>, <<"-", "-", "z", "z">>, <<"-", "-", "e", "x">> }

\* inline spellings of the three flag types with valid and invalid literals
PoolSpell ==
    { <<"-", "n", "=", "7">>, <<"-", "n", "=", "z">>,
      <<"-", "v", "=", "f", "a", "l", "s", "e">>, <<"-", "v", "=", "t", "r", "u", "e">>,
      <<"-", "v", "=", "z">>,
      <<"-", "f", "=", "z">>, <<"-", "f", "=", "-", "n">>,
      <<"-", "n">>, <<"-", "f">>, <<"7">> }

\* an integer flag in short and long form, and integer literals: plain,
\* negative, partial, empty, bare sign, leading zeros, plus sign, and the
\* literals next to the ends of the int range
PoolInt ==
    { <<"-", "n">>, <<"-", "-">> \o Num,
      <<"7">>, <<"-", "5">>, <<"1", "2", "x">>, <<>>, <<"-">>,
      <<"0", "0", "7">>, <<"+", "7">>,
      <<"2", "1", "4", "7", "4", "8", "3", "6", "4", "8">>,
      <<"-", "2", "1", "4", "7", "4", "8", "3", "6", "4", "8">> }

ConfigsInt == {CfgOpt, CfgReq, CfgPlain}

\* a boolean flag in every form, and boolean literals: exact, capitalised,
\* numeric, a word, empty
PoolBool ==
    { <<"-", "v">>, <<"-", "-">> \o Verb,
      <<"-", "-">> \o Verb \o <<"=", "t", "r", "u", "e">>,
      <<"-", "v", "=", "T", "r", "u", "e">>,
      <<"-", "v", "=", "f", "a", "l", "s", "e">>, <<"-", "v", "=">>,
      <<"t", "r", "u", "e">>, <<"f", "a", "l", "s", "e">>, <<"T", "r", "u", "e">>,
      <<"1">>, <<"y", "e", "s">>, <<>> }

ConfigsBool == {CfgOpt, CfgReq, CfgPlain}

\* the four kinds of token the loop skips (empty, positional, "-", "--")
\* among flags that take a value, flags that do not, and unknown flags
PoolNoop ==
    { <<>>, <<"-">>, <<"-", "-">>, <<"7">>, <<"t", "r", "u", "e">>,
      <<"-", "n">>, <<"-", "-">> \o Num \o <<"=", "7">>, <<"-", "v">>, <<"-", "f">>,
      <<"-", "x">>, <<"-", "-", "z", "z">> }

ConfigsNoop == {CfgOpt, CfgReq, CfgReqF, CfgPlain}

\* the caller gives 'h' a long name without declaring it in defaults
CfgLongH ==
    [defaults   |-> ("n" :> IntV(0)),
     long_names |-> ("h" :> <<"h", "o", "s", "t">>) @@ ("n" :> Num),
     required   |-> {},
     help       |-> <<>>]

\* the caller declares 'h' itself, as a boolean without long name
CfgShortH ==
    [defaults   |-> ("h" :> BoolV(TRUE)) @@ ("n" :> IntV(0)),
     long_names |-> ("n" :> Num),
     required   |-> {},
     help       |-> <<>>]

ConfigsHelp == {CfgOpt, CfgOwnH, CfgLongH, CfgShortH}

\* the two help tokens, tokens that only resemble them, the long name a
\* caller may give 'h', an unknown flag, and a flag with its value
PoolHelp ==
    { <<"-", "h">>, <<"-", "-">> \o Help,
      <<"-", "h", "=", "t", "r", "u", "e">>, <<"-", "-">> \o Help \o <<"=", "t", "r", "u", "e">>,
      <<"-", "h", "h">>, <<"-", "-", "h", "e", "l">>, <<"-", "-", "h", "o", "s", "t">>,
      <<"-", "x">>, <<"-", "n">>, <<"7">> }

\* program names: a plain one, an empty one, and ones that look like a flag
\* with an inline value, an unknown flag and the two help tokens
ProgNames ==
    { <<"p">>, <<>>, <<"-", "n", "=", "7">>, <<"-", "x">>, <<"-", "h">>,
      <<"-", "-">> \o Help }

\* all token lists of at most m tokens of the pool P, after a program name of Q
ArgvsNamed(Q, P, m) ==
    {<<q>> \o s : q \in Q, s \in UNION {[1..k -> P] : k \in 0..m}}

PoolProg ==
    { <<"-", "n">>, <<"7">>, <<"-", "v">>, <<"-", "x">>, <<"-", "h">>,
      <<"-", "n", "=", "7">> }

ConfigsProg == {CfgOpt, CfgReq, CfgOwnH}

\* tokens for two concurrent calls: flags with and without values, a
\* duplicate form, an unknown flag
PoolConcurrent ==
    { <<"-", "n">>, <<"7">>, <<"-", "v">>, <<"-", "n", "=", "7">>, <<"-", "x">>,
      <<"t", "r", "u", "e">> }

ConfigsConcurrent == {CfgOpt, CfgReq}

\* tokens for every way a loop iteration ends: skipped ("", "--", a
\* positional word), flag with inline value, flag taking the next token,
\* flag set by presence, unknown flag; all in short form
PoolTerm ==
    { <<>>, <<"-", "-">>, <<"7">>, <<"-", "n">>, <<"-", "n", "=", "7">>,
      <<"-", "v">>, <<"-", "x">> }

ConfigsTerm == {CfgOpt, CfgReq}

\* flags that take the next token, and next tokens that begin with '-': a
\* negative number, declared flags in short and long form, undeclared flags
PoolVerbatim ==
    { <<"-", "f">>, <<"-", "n">>, <<"-", "n", "=", "7">>, <<"-", "5">>,
      <<"-", "-">> \o Num \o <<"=", "7">>, <<"-", "v">>, <<"-", "x">>,
      <<"-", "-", "z", "z">> }

ConfigsVerbatim == {CfgOpt, CfgReq, CfgReqF}

Host == <<"h", "o", "s", "t">>

\* inline values in long and short form: plain, with further '=' characters,
\* empty, for a text, an integer and a boolean flag
PoolInline ==
    { <<"-", "-">> \o Host \o <<"=", "a", "=", "b">>, <<"-", "-">> \o Host \o <<"=">>,
      <<"-", "h", "=", "a", "=", "b">>, <<"-", "h", "=">>, <<"-", "h", "=", "=">>,
      <<"-", "-">> \o Num \o <<"=", "7">>, <<"-", "-">> \o Num \o <<"=", "7", "=", "5">>,
      <<"-", "-">> \o Num \o <<"=">>, <<"-", "n", "=">>, <<"-", "n", "=", "7">>,
      <<"-", "v", "=">>, <<"-", "-">> \o Verb \o <<"=", "t", "r", "u", "e">> }

ConfigsInline == {CfgOwnH, CfgOpt}

\* short-form tokens of more than two characters without '=' at index 2:
\* a digit, declared keys or undeclared characters after the flag; with the
\* plain flags and a value
PoolCluster ==
    { <<"-", "n", "5">>, <<"-", "v", "n">>, <<"-", "a", "b", "c">>, <<"-", "f", "n">>,
      <<"-", "v", "t", "r", "u", "e">>,
      <<"-", "n">>, <<"7">>, <<"-", "v">>, <<"-", "f">> }

ConfigsCluster == {CfgOpt, CfgReq, CfgReqF}

\* 2^31 - 1 and -2^31, the literals next to them outside the range, and
\* 2^32 + 7, which a wrapping reader takes for 7
IntMaxLit == <<"2", "1", "4", "7", "4", "8", "3", "6", "4", "7">>
IntMaxLit1 == <<"2", "1", "4", "7", "4", "8", "3", "6", "4", "8">>
IntMinLit == <<"-", "2", "1", "4", "7", "4", "8", "3", "6", "4", "8">>
IntMinLit1 == <<"-", "2", "1", "4", "7", "4", "8", "3", "6", "4", "9">>
WrapLit == <<"4", "2", "9", "4", "9", "6", "7", "3", "0", "3">>

\* an integer flag taking the next token or an inline value, and literals at
\* and beyond both ends of the int range
PoolRange ==
    { <<"-", "n">>, IntMaxLit, IntMaxLit1, IntMinLit, IntMinLit1, WrapLit, <<"7">>,
      <<"-", "n", "=">> \o IntMaxLit1, <<"-", "n", "=">> \o IntMinLit,
      <<"-", "-">> \o Num \o <<"=">> \o IntMaxLit,
      <<"-", "-">> \o Num \o <<"=">> \o IntMinLit1 }

ConfigsRange == {CfgOpt, CfgPlain}

\* required names a declared key and a key that defaults does not declare
\* and that has no long name
CfgBadF ==
    [defaults   |-> ("n" :> IntV(0)) @@ ("f" :> StrV(<<>>)),
     long_names |-> ("n" :> Num),
     required   |-> {"f", "x"},
     help       |-> <<>>]

ConfigsBad == {CfgBad, CfgBadF}

\* the undeclared required key in every form, among flags that take the next
\* token, a failing flag and a value
PoolBad ==
    { <<"-", "x">>, <<"-", "-", "e", "x">>, <<"-", "x", "=", "1">>,
      <<"-", "n">>, <<"7">>, <<"-", "n", "=", "z">>, <<"-", "f">>, <<"-", "v">>,
      <<"-", "-", "z", "z">> }

\* tokens for calls that fail and calls that succeed, with and without a
\* help token, and tokens that name flag 'h' without being a help token
PoolReport ==
    { <<"-", "h">>, <<"-", "h", "=", "t", "r", "u", "e">>, <<"-", "h", "h">>,
      <<"-", "x">>, <<"-", "n">>, <<"7">>, <<"-", "-">> \o Num \o <<"=", "z">> }

Init == \E cfg \in Configs, args \in Argvs(Pool, MaxArgs) : Construct(cfg, args)

InitSpell == \E cfg \in Configs, args \in Argvs(PoolSpell, MaxArgs) : Construct(cfg, args)

InitInt == \E cfg \in ConfigsInt, args \in Argvs(PoolInt, MaxArgs) : Construct(cfg, args)

InitBool == \E cfg \in ConfigsBool, args \in Argvs(PoolBool, MaxArgs) : Construct(cfg, args)

InitNoop == \E cfg \in ConfigsNoop, args \in Argvs(PoolNoop, MaxArgs) : Construct(cfg, args)

InitHelp == \E cfg \in ConfigsHelp, args \in Argvs(PoolHelp, MaxArgs) : Construct(cfg, args)

InitProg ==
    \E cfg \in ConfigsProg, args \in ArgvsNamed(ProgNames, PoolProg, MaxArgs) :
        Construct(cfg, args)

InitConcurrent ==
    \E cfg \in ConfigsConcurrent, args \in Argvs(PoolConcurrent, MaxArgs) :
        Construct(cfg, args)

InitTerm == \E cfg \in ConfigsTerm, args \in Argvs(PoolTerm, MaxArgs) : Construct(cfg, args)

InitVerbatim ==
    \E cfg \in ConfigsVerbatim, args \in Argvs(PoolVerbatim, MaxArgs) : Construct(cfg, args)

InitInline ==
    \E cfg \in ConfigsInline, args \in Argvs(PoolInline, MaxArgs) : Construct(cfg, args)

InitCluster ==
    \E cfg \in ConfigsCluster, args \in Argvs(PoolCluster, MaxArgs) : Construct(cfg, args)

InitRange ==
    \E cfg \in ConfigsRange, args \in Argvs(PoolRange, MaxArgs) : Construct(cfg, args)

InitBad ==
    \E cfg \in ConfigsBad, args \in Argvs(PoolBad, MaxArgs) : Construct(cfg, args)

InitReport == \E cfg \in ConfigsHelp, args \in Argvs(PoolReport, MaxArgs) : Construct(cfg, args)

Spec == Init /\ [][Next]_vars

SpecSpell == InitSpell /\ [][Next]_vars

SpecInt == InitInt /\ [][Next]_vars

SpecBool == InitBool /\ [][Next]_vars

SpecNoop == InitNoop /\ [][Next]_vars

SpecHelp == InitHelp /\ [][NextHelp]_vars

SpecProg == InitProg /\ [][Next]_vars

SpecVerbatim == InitVerbatim /\ [][Next]_vars

SpecInline == InitInline /\ [][Next]_vars

SpecCluster == InitCluster /\ [][Next]_vars

SpecRange == InitRange /\ [][Next]_vars

SpecBad == InitBad /\ [][Next]_vars

SpecReport == InitReport /\ [][NextReport]_vars

SpecConcurrent == InitConcurrent /\ [][NextConcurrent]_vars

\* a call that has started runs on: the caller's thread executes the loop
\* iterations and the return without waiting for anything
SpecTerm ==
    /\ InitTerm
    /\ [][Next]_vars
    /\ WF_vars(ParseIter)
    /\ WF_vars(ParseFinish)

-----------------------------------------------------------------------------
(* Vocabulary of the properties *)

Done == pc = "done"
Out == call.outcome
Succeeded == Done /\ Out.kind = "ok"
Failed(error, argument) ==
    Done /\ Out.kind = "err" /\ Out.error = error /\ Out.argument = argument

\* token shapes, read off the token text
IsShortTok(t) == Len(t) >= 2 /\ t[1] = "-" /\ t[2] # "-"
IsLongTok(t) == Len(t) >= 3 /\ t[1] = "-" /\ t[2] = "-"
EqualsAt(t) ==
    IF \E i \in 3..Len(t) : t[i] = "="
    THEN CHOOSE i \in 3..Len(t) : t[i] = "=" /\ \A j \in 3..(i - 1) : t[j] # "="
    ELSE 0
HasInline(t) ==
    IF IsShortTok(t) THEN Len(t) >= 3 /\ t[3] = "=" ELSE IsLongTok(t) /\ EqualsAt(t) # 0
InlineOf(t) ==
    IF IsShortTok(t) THEN SubSeq(t, 4, Len(t)) ELSE SubSeq(t, EqualsAt(t) + 1, Len(t))
LongNameOf(t) ==
    IF EqualsAt(t) # 0 THEN SubSeq(t, 3, EqualsAt(t) - 1) ELSE SubSeq(t, 3, Len(t))
\* the keys a flag-shaped token names
KeysOf(t) ==
    IF IsShortTok(t) THEN {t[2]}
    ELSE IF IsLongTok(t)
    THEN {k \in DOMAIN long_names_ : long_names_[k] = LongNameOf(t)}
    ELSE {}

\* positions after the program name, and those examined as flag tokens
Positions == 2..Len(argv_)
FlagAt(i) == i \in Positions /\ call.roles[i] = "flag"
ValueAt(i) == i \in Positions /\ call.roles[i] = "value"
\* position i is examined as a flag token naming the declared key k, for the first time
FirstFlag(i, k) ==
    /\ FlagAt(i)
    /\ KeysOf(argv_[i]) = {k}
    /\ k \in DOMAIN defaults_
    /\ \A j \in 2..(i - 1) : ~(FlagAt(j) /\ k \in KeysOf(argv_[j]))

-----------------------------------------------------------------------------
(* C1 *)

\* C1: an argument vector with no tokens after the program name parses
\* successfully if and only if required_ is empty, and the successful result
\* is defaults_ exactly.
C1_EmptyTokens ==
    (Done /\ Len(argv_) = 1) =>
        /\ (Out.kind = "ok") <=> (required_ = {})
        /\ Out.kind = "ok" => Out.values = defaults_

C1_Witness == Succeeded /\ Len(argv_) = 1 /\ required_ = {}

C1_WitnessFail == Done /\ Len(argv_) = 1 /\ Out.kind = "err" /\ required_ # {}

-----------------------------------------------------------------------------
(* C2 *)

\* the value the flag token at position i gives its key k
OccValue(i, k) ==
    IF HasInline(argv_[i]) THEN parse_value(defaults_, k, InlineOf(argv_[i]))
    ELSE IF defaults_[k].t = "bool" /\ k \notin required_ THEN Expected(BoolV(TRUE))
    ELSE parse_value(defaults_, k, argv_[i + 1])

\* C2: a successful result has exactly the keys of defaults_ (the caller's
\* keys and 'h'); a key no flag token named holds its default; a key named
\* by a flag token is named by exactly one, and holds the value coerced from it.
C2_Overlay ==
    Succeeded =>
        /\ DOMAIN Out.values = DOMAIN defaults_
        /\ DOMAIN Out.values = DOMAIN config.defaults \cup {"h"}
        /\ \A k \in DOMAIN defaults_ :
              LET occ == {i \in Positions : FlagAt(i) /\ k \in KeysOf(argv_[i])}
              IN  /\ occ = {} => Out.values[k] = defaults_[k]
                  /\ occ # {} =>
                        /\ Cardinality(occ) = 1
                        /\ \A i \in occ : Out.values[k] = OccValue(i, k).values

\* a success in which one flag was given and another kept its default
C2_Witness ==
    /\ Succeeded
    /\ "h" \notin DOMAIN config.defaults
    /\ \E i \in Positions : FlagAt(i) /\ KeysOf(argv_[i]) = {"n"}
    /\ Out.values["n"] # defaults_["n"]
    /\ Out.values["v"] = defaults_["v"]

-----------------------------------------------------------------------------
(* C3 *)

\* args with the token at position i replaced by the tokens toks
Replace(args, i, toks) == SubSeq(args, 1, i - 1) \o toks \o SubSeq(args, i + 1, Len(args))

\* operator()() of this parser on another argument vector
ParseOf(args) == Parse(defaults_, long_names_, required_, args)

\* same result map on success, same failure kind and key on failure
SameOutcome(a, b) ==
    /\ a.kind = b.kind
    /\ a.kind = "ok" => a.values = b.values
    /\ a.kind = "err" => a.error = b.error /\ a.argument = b.argument

\* k has a long name that names k alone and can be written before an '='
HasLongSpelling(k) ==
    /\ k \in DOMAIN long_names_
    /\ \A j \in DOMAIN long_names_ : long_names_[j] = long_names_[k] => j = k
    /\ \A p \in 1..Len(long_names_[k]) : long_names_[k][p] # "="

\* the token at position i is examined as the flag token `-k=V` of a declared k
ShortInlineAt(i, k) ==
    /\ FlagAt(i)
    /\ IsShortTok(argv_[i]) /\ HasInline(argv_[i])
    /\ k = argv_[i][2]
    /\ k \in DOMAIN defaults_

\* the argument vector with `-k=V` at position i respelled `--long=V` / `-k V`
LongSpelling(i, k) ==
    Replace(argv_, i, << <<"-", "-">> \o long_names_[k] \o <<"=">> \o InlineOf(argv_[i]) >>)
TwoTokenSpelling(i, k) ==
    Replace(argv_, i, << <<"-", k>>, InlineOf(argv_[i]) >>)

\* C3 as stated: for every flag type and required-ness the three spellings
\* `-k=V`, `--long=V` and `-k V` of a flag give identical outcomes.
C3_AllTypes ==
    Done =>
        \A i \in Positions : \A k \in DOMAIN defaults_ :
            ShortInlineAt(i, k) =>
                /\ SameOutcome(Out, ParseOf(TwoTokenSpelling(i, k)))
                /\ HasLongSpelling(k) => SameOutcome(Out, ParseOf(LongSpelling(i, k)))

\* C3 amended: the three spellings give identical outcomes for a flag of
\* integer or text type and for a required boolean flag; for a boolean flag
\* that is not required the two inline spellings `-k=V` and `--long=V` do.
C3_Spellings ==
    Done =>
        \A i \in Positions : \A k \in DOMAIN defaults_ :
            ShortInlineAt(i, k) =>
                /\ (defaults_[k].t # "bool" \/ k \in required_) =>
                       SameOutcome(Out, ParseOf(TwoTokenSpelling(i, k)))
                /\ HasLongSpelling(k) => SameOutcome(Out, ParseOf(LongSpelling(i, k)))

\* a required boolean with a long name, given as `-v=false`, in a success
C3_Witness ==
    /\ Succeeded
    /\ \E i \in Positions :
          /\ ShortInlineAt(i, "v")
          /\ "v" \in required_
          /\ HasLongSpelling("v")
          /\ Out.values["v"] = BoolV(FALSE)

-----------------------------------------------------------------------------
(* C4 *)

\* whether the flag-shaped token t, if accepted, takes the token after it
TakesValue(t) ==
    /\ ~HasInline(t)
    /\ \E k \in KeysOf(t) \cap DOMAIN defaults_ :
          defaults_[k].t # "bool" \/ k \in required_

\* the positions from p on whose token stands as a flag token in argv_, that
\* is, is flag-shaped and is not the value of the flag token before it
RECURSIVE FlagTokens(_)
FlagTokens(p) ==
    IF p > Len(argv_) THEN {}
    ELSE IF ~(IsShortTok(argv_[p]) \/ IsLongTok(argv_[p])) THEN FlagTokens(p + 1)
    ELSE {p} \cup (IF TakesValue(argv_[p]) THEN FlagTokens(p + 2) ELSE FlagTokens(p + 1))

\* the declared key k occurs as a flag token at i and again at j
TwiceAt(i, j, k) ==
    /\ i < j
    /\ {i, j} \subseteq FlagTokens(2)
    /\ KeysOf(argv_[i]) = {k} /\ KeysOf(argv_[j]) = {k}
    /\ k \in DOMAIN defaults_

\* C4 as stated: whenever a declared key occurs twice as a flag token, parse
\* returns DuplicateArgument tagged with that key.
C4_AlwaysDuplicate ==
    Done =>
        \A i, j \in Positions : \A k \in DOMAIN defaults_ :
            TwiceAt(i, j, k) => Failed("DuplicateArgument", k)

\* C4 amended: whenever a declared key occurs twice as a flag token, in any
\* mix of forms, parse fails; it returns DuplicateArgument tagged with that
\* key (and an empty detail) whenever the second occurrence is reached, that
\* is, unless an earlier token or the value of the first occurrence fails first.
C4_Duplicate ==
    Done =>
        \A i, j \in Positions : \A k \in DOMAIN defaults_ :
            TwiceAt(i, j, k) =>
                /\ Out.kind = "err"
                /\ FlagAt(j) => Out = Unexpected("DuplicateArgument", k, <<>>)

\* a short form followed by a long inline form of the same key
C4_Witness ==
    /\ Failed("DuplicateArgument", "n")
    /\ \E i, j \in Positions :
          /\ TwiceAt(i, j, "n") /\ FlagAt(j)
          /\ IsShortTok(argv_[i]) /\ IsLongTok(argv_[j]) /\ HasInline(argv_[j])

-----------------------------------------------------------------------------
(* C5 *)

\* the keys named by the tokens examined as flag tokens
NamedKeys == UNION {KeysOf(argv_[i]) : i \in {p \in Positions : FlagAt(p)}}

\* the loop has run to the end of argv_ and the call has returned
AllConsumed == Done /\ call.it > Len(argv_)

\* C5: when all tokens have been consumed and a key of required_ was not
\* seen, parse returns MissingRequiredArgument tagged with the missing key of
\* least character code, with that key's long name as detail if it has one
\* and the empty string otherwise.
C5_FirstMissing ==
    LET missing == required_ \ NamedKeys
    IN  (AllConsumed /\ missing # {}) =>
            \E m \in missing :
                /\ \A o \in missing : Ord(m) <= Ord(o)
                /\ Out = Unexpected("MissingRequiredArgument", m,
                                    IF m \in DOMAIN long_names_ THEN long_names_[m]
                                    ELSE <<>>)

\* two keys are missing and the reported one has no long name
C5_Witness ==
    /\ AllConsumed
    /\ Cardinality(required_ \ NamedKeys) = 2
    /\ Out.kind = "err" /\ Out.error = "MissingRequiredArgument"
    /\ Out.argument \notin DOMAIN long_names_

\* one required key was given, the other is reported with its long name
C5_WitnessLongName ==
    /\ AllConsumed
    /\ required_ \cap NamedKeys # {}
    /\ Out.kind = "err" /\ Out.error = "MissingRequiredArgument"
    /\ Out.argument \in DOMAIN long_names_ /\ Out.detail = long_names_[Out.argument]

-----------------------------------------------------------------------------
(* C6 *)

\* the digits of a literal: the literal without its leading '-'
DigitsOf(lit) == IF Len(lit) >= 1 /\ lit[1] = "-" THEN Tail(lit) ELSE lit

\* a base-10 signed integer with no extraneous characters: an optional '-'
\* and one or more decimal digits
IsDecimal(lit) ==
    /\ Len(DigitsOf(lit)) >= 1
    /\ \A i \in 1..Len(DigitsOf(lit)) : DigitsOf(lit)[i] \in Digits

\* a digit string without its leading zeros
RECURSIVE StripZeros(_)
StripZeros(d) == IF Len(d) >= 1 /\ d[1] = "0" THEN StripZeros(Tail(d)) ELSE d

\* a <= b for digit strings of the same length
RECURSIVE DigitsLeq(_, _)
DigitsLeq(a, b) ==
    IF Len(a) = 0 THEN TRUE
    ELSE IF a[1] # b[1] THEN Ord(a[1]) < Ord(b[1])
    ELSE DigitsLeq(Tail(a), Tail(b))

\* the decimal literal denotes a value of the 32-bit int range
InIntRange(lit) ==
    LET d == StripZeros(DigitsOf(lit))
        top == IF lit[1] = "-"
               THEN <<"2", "1", "4", "7", "4", "8", "3", "6", "4", "8">>
               ELSE <<"2", "1", "4", "7", "4", "8", "3", "6", "4", "7">>
    IN  Len(d) < Len(top) \/ (Len(d) = Len(top) /\ DigitsLeq(d, top))

\* minus the number a digit string denotes
RECURSIVE NegMagnitude(_)
NegMagnitude(d) ==
    IF Len(d) = 0 THEN 0
    ELSE NegMagnitude(SubSeq(d, 1, Len(d) - 1)) * 10 - (Ord(d[Len(d)]) - 48)

\* the integer an in-range decimal literal denotes
Denoted(lit) ==
    IF lit[1] = "-" THEN NegMagnitude(DigitsOf(lit)) ELSE 0 - NegMagnitude(DigitsOf(lit))

\* the integer flag k is given at position i as `-k L` / `--long L`, and L,
\* the next token, has been coerced
IntLiteralAt(i, k) ==
    /\ FirstFlag(i, k)
    /\ defaults_[k].t = "int"
    /\ ~HasInline(argv_[i])
    /\ ValueAt(i + 1)

\* parsing went on after the literal at i + 1 with k holding its integer
YieldsInt(i, k, lit) ==
    /\ call.it >= i + 2
    /\ call.result[k] = IntV(Denoted(lit))
    /\ ~(Out.kind = "err" /\ Out.error = "InvalidIntegerValue" /\ Out.argument = k)

\* parsing stopped at the literal at i + 1 with InvalidIntegerValue for k
YieldsInvalid(i, k, lit) ==
    call.it = i + 1 /\ Out = Unexpected("InvalidIntegerValue", k, lit)

\* C6 as stated: `-k L` yields the integer denoted by L exactly when L is a
\* base-10 signed integer with no extraneous characters, and
\* InvalidIntegerValue tagged with k otherwise.
C6_AnyDecimal ==
    \A i \in Positions : \A k \in DOMAIN defaults_ :
        IntLiteralAt(i, k) =>
            IF IsDecimal(argv_[i + 1])
            THEN ~YieldsInvalid(i, k, argv_[i + 1])
            ELSE YieldsInvalid(i, k, argv_[i + 1])

\* C6 amended: `-k L` yields the integer denoted by L exactly when L is an
\* optional '-' followed by one or more decimal digits whose value lies in
\* the range of a 32-bit signed int, and InvalidIntegerValue tagged with k
\* (detail L) otherwise.
C6_IntLiteral ==
    \A i \in Positions : \A k \in DOMAIN defaults_ :
        IntLiteralAt(i, k) =>
            IF IsDecimal(argv_[i + 1]) /\ InIntRange(argv_[i + 1])
            THEN YieldsInt(i, k, argv_[i + 1])
            ELSE YieldsInvalid(i, k, argv_[i + 1])

\* the literal "007" read back as 7 in a successful parse
C6_Witness ==
    /\ Succeeded
    /\ \E i \in Positions :
          /\ IntLiteralAt(i, "n")
          /\ argv_[i + 1] = <<"0", "0", "7">>
          /\ Out.values["n"] = IntV(7)

\* the literal "12x" rejected
C6_WitnessInvalid ==
    \E i \in Positions :
        /\ IntLiteralAt(i, "n")
        /\ argv_[i + 1] = <<"1", "2", "x">>
        /\ YieldsInvalid(i, "n", argv_[i + 1])

-----------------------------------------------------------------------------
(* C7 *)

\* the boolean flag k, first given at position i, is supplied the literal at
\* position p: inline (p = i) or as the consumed next token (p = i + 1)
BoolLiteralAt(i, k, p) ==
    /\ FirstFlag(i, k)
    /\ defaults_[k].t = "bool"
    /\ \/ HasInline(argv_[i]) /\ p = i
       \/ ~HasInline(argv_[i]) /\ ValueAt(i + 1) /\ p = i + 1

\* the literal supplied at p
LiteralAt(i, p) == IF p = i THEN InlineOf(argv_[i]) ELSE argv_[p]

\* parsing went on after position p with k holding the boolean b
YieldsBool(k, p, b) ==
    /\ call.it > p
    /\ call.result[k] = BoolV(b)
    /\ ~(Out.kind = "err" /\ Out.error = "InvalidBooleanValue" /\ Out.argument = k)

\* C7: for every boolean flag and every literal supplied to it, inline or as
\* the consumed next token, "true" gives true, "false" gives false, and every
\* other literal gives InvalidBooleanValue tagged with the flag's key.
C7_BoolCoercion ==
    \A i \in Positions : \A p \in {i, i + 1} : \A k \in DOMAIN defaults_ :
        BoolLiteralAt(i, k, p) =>
            LET lit == LiteralAt(i, p)
            IN  IF lit = <<"t", "r", "u", "e">> THEN YieldsBool(k, p, TRUE)
                ELSE IF lit = <<"f", "a", "l", "s", "e">> THEN YieldsBool(k, p, FALSE)
                ELSE call.it = p /\ Out = Unexpected("InvalidBooleanValue", k, lit)

\* a required boolean whose consumed next token "True" is rejected
C7_Witness ==
    \E i \in Positions :
        /\ BoolLiteralAt(i, "v", i + 1)
        /\ "v" \in required_
        /\ argv_[i + 1] = <<"T", "r", "u", "e">>
        /\ Failed("InvalidBooleanValue", "v")

\* a boolean with default true set to false by an inline literal
C7_WitnessFalse ==
    /\ Succeeded
    /\ defaults_["v"] = BoolV(TRUE)
    /\ Out.values["v"] = BoolV(FALSE)
    /\ \E i \in Positions : BoolLiteralAt(i, "v", i)

\* the empty inline literal rejected
C7_WitnessEmpty ==
    \E i \in Positions :
        /\ BoolLiteralAt(i, "v", i)
        /\ InlineOf(argv_[i]) = <<>>
        /\ Failed("InvalidBooleanValue", "v")

-----------------------------------------------------------------------------
(* C8 *)

\* the flag k, first given at position i without inline value, is of integer
\* or text type, or is a required boolean
NeedsValueAt(i, k) ==
    /\ FirstFlag(i, k)
    /\ ~HasInline(argv_[i])
    /\ defaults_[k].t \in {"int", "str"} \/ (defaults_[k].t = "bool" /\ k \in required_)

\* C8: a flag of integer type, of text type, or of boolean type that is
\* required, given without inline value, consumes exactly the next token as
\* its literal value; as the last token it makes parse return MissingValue
\* tagged with its key.
C8_ConsumesNext ==
    \A i \in Positions : \A k \in DOMAIN defaults_ :
        NeedsValueAt(i, k) =>
            IF i = Len(argv_)
            THEN call.it = i /\ Out.kind = "err"
                 /\ Out.error = "MissingValue" /\ Out.argument = k
            ELSE /\ ValueAt(i + 1)
                 /\ ~ValueAt(i + 2)
                 /\ LET r == parse_value(defaults_, k, argv_[i + 1])
                    IN  IF r.kind = "ok"
                        THEN call.it >= i + 2 /\ call.result[k] = r.values
                        ELSE call.it = i + 1 /\ Out = r

\* a required boolean given as a bare last token
C8_Witness ==
    /\ Failed("MissingValue", "v")
    /\ NeedsValueAt(Len(argv_), "v")
    /\ defaults_["v"].t = "bool"

\* a text flag taking a flag-shaped next token as its value
C8_WitnessConsumed ==
    /\ Succeeded
    /\ \E i \in Positions :
          /\ NeedsValueAt(i, "f")
          /\ IsShortTok(argv_[i + 1])
          /\ Out.values["f"] = StrV(argv_[i + 1])

-----------------------------------------------------------------------------
(* C9 *)

\* the boolean flag k, not required, is first given at position i without
\* inline value
PresenceAt(i, k) ==
    /\ FirstFlag(i, k)
    /\ ~HasInline(argv_[i])
    /\ defaults_[k].t = "bool"
    /\ k \notin required_

\* position p has been passed by the loop, or the call has returned
Passed(p) == call.it > p \/ Out.kind # "running"

\* C9: a boolean flag that is not required, given without inline value in
\* short or long form, is set to true by its presence and consumes no token:
\* the token after it is examined as a token in its own right (as a flag
\* token if it is flag-shaped, skipped otherwise).
C9_PresenceTrue ==
    \A i \in Positions : \A k \in DOMAIN defaults_ :
        PresenceAt(i, k) =>
            /\ call.it >= i + 1
            /\ call.result[k] = BoolV(TRUE)
            /\ ~ValueAt(i + 1)
            /\ (i + 1 \in Positions /\ Passed(i + 1)) =>
                  call.roles[i + 1] =
                      IF IsShortTok(argv_[i + 1]) \/ IsLongTok(argv_[i + 1])
                      THEN "flag" ELSE "skip"

\* the long form of an optional boolean followed by a flag that takes a value
C9_Witness ==
    /\ Succeeded
    /\ \E i \in Positions :
          /\ PresenceAt(i, "v") /\ IsLongTok(argv_[i])
          /\ NeedsValueAt(i + 1, "n")
          /\ Out.values["v"] = BoolV(TRUE)
          /\ Out.values["n"] = IntV(7)

-----------------------------------------------------------------------------
(* C10 *)

\* position i has been examined by the loop as a token of its own
ExaminedAt(i) == i \in Positions /\ call.roles[i] \in {"skip", "flag"}

\* C10: a flag token that resolves to no key of defaults_ yields
\* UnknownArgument with the raw token as detail: a short-form token is tagged
\* with its key character, a long-form token whose name matches no entry of
\* long_names_ is tagged with '-' (and a long-form token whose name matches
\* the entry of an undeclared key is tagged with that key).
C10_Unknown ==
    \A i \in Positions :
        ExaminedAt(i) =>
            LET t == argv_[i]
            IN  /\ (IsLongTok(t) /\ KeysOf(t) = {}) =>
                      call.it = i /\ Out = Unexpected("UnknownArgument", "-", t)
                /\ \A k \in KeysOf(t) :
                      (KeysOf(t) \cap DOMAIN defaults_ = {}) =>
                          call.it = i /\ Out = Unexpected("UnknownArgument", k, t)

\* an unknown long argument after a flag that parsed
C10_Witness ==
    /\ Failed("UnknownArgument", "-")
    /\ \E i \in Positions :
          /\ i > 2 /\ ExaminedAt(i)
          /\ IsLongTok(argv_[i]) /\ KeysOf(argv_[i]) = {}
          /\ Out.detail = argv_[i]

\* an unknown short argument
C10_WitnessShort ==
    /\ Failed("UnknownArgument", "x")
    /\ \E i \in Positions : ExaminedAt(i) /\ IsShortTok(argv_[i]) /\ Out.detail = argv_[i]

-----------------------------------------------------------------------------
(* C11 *)

\* a token the loop passes over, read off its text: empty, not starting with
\* a dash, exactly "-", or exactly "--"
IsNoOpTok(t) ==
    \/ Len(t) = 0
    \/ t[1] # "-"
    \/ t = <<"-">>
    \/ t = <<"-", "-">>

\* the argument vector without the token at position i
Without(args, i) == Replace(args, i, <<>>)

\* C11: a token that is empty, does not start with a dash, is exactly "-" or
\* is exactly "--" is a no-op wherever it stands, unless it is the token
\* consumed as a flag's value: the call examines it without taking a flag
\* from it, and parse of the token list without it returns the same outcome
\* (so the tokens after "--" are parsed as options, as without it).
C11_NoOpTokens ==
    Done =>
        \A i \in Positions :
            IsNoOpTok(argv_[i]) /\ ~ValueAt(i) =>
                /\ call.roles[i] \in {"skip", "none"}
                /\ ParseOf(Without(argv_, i)) = Out

\* a call that succeeded with "--" standing before a flag and its value: the
\* flag after the separator was parsed as an option
C11_Witness ==
    /\ Succeeded
    /\ Len(argv_) = 4
    /\ argv_[2] = <<"-", "-">>
    /\ argv_[3] = <<"-", "n">>
    /\ call.roles[2] = "skip" /\ FlagAt(3) /\ ValueAt(4)
    /\ Out.values["n"] = IntV(7)

\* a call that passed over an empty token, a bare "-" and a positional word
C11_WitnessKinds ==
    /\ Succeeded
    /\ \E i, j, k \in Positions :
          /\ argv_[i] = <<>> /\ argv_[j] = <<"-">> /\ argv_[k] = <<"7">>
          /\ call.roles[i] = "skip" /\ call.roles[j] = "skip" /\ call.roles[k] = "skip"

-----------------------------------------------------------------------------
(* C12 *)

\* the alternative of std::variant<int,bool,std::string> an ArgValue holds
Variant(a) == a.t

\* the ArgValue is well formed: the value it carries is of its alternative
HoldsVariant(a) ==
    CASE a.t = "int"  -> a.v \in Int
      [] a.t = "bool" -> a.v \in BOOLEAN
      [] a.t = "str"  -> DOMAIN a.v = 1..Len(a.v)
      [] OTHER        -> FALSE

\* C12: in every successful result each flag holds a value of the same
\* variant (integer, boolean or text) as its default; the same is true of
\* the call's result map at every point of the loop.
C12_VariantPreserved ==
    /\ \A k \in DOMAIN call.result :
          /\ Variant(call.result[k]) = Variant(defaults_[k])
          /\ HoldsVariant(call.result[k])
    /\ Out.kind = "ok" =>
          \A k \in DOMAIN Out.values :
              /\ Variant(Out.values[k]) = Variant(defaults_[k])
              /\ HoldsVariant(Out.values[k])

\* a success in which flags of all three variants took a value from the tokens
C12_Witness ==
    /\ Succeeded
    /\ \E k \in DOMAIN defaults_ :
          defaults_[k].t = "int" /\ Out.values[k] # defaults_[k]
    /\ \E k \in DOMAIN defaults_ :
          defaults_[k].t = "bool" /\ Out.values[k] # defaults_[k]
    /\ \E k \in DOMAIN defaults_ :
          defaults_[k].t = "str" /\ Out.values[k] # defaults_[k]

-----------------------------------------------------------------------------
(* C13 *)

\* the flag token examined at position i causes the failure e; p is the last
\* position the failure involves (i itself, or i + 1 when the offending
\* literal is the consumed next token).  Read off the token texts.
CausesAt(i, p, e) ==
    /\ FlagAt(i)
    /\ LET t == argv_[i]
       IN  \/ /\ e = "UnknownArgument" /\ p = i
              /\ KeysOf(t) \cap DOMAIN defaults_ = {}
           \/ /\ e = "DuplicateArgument" /\ p = i
              /\ \E k \in KeysOf(t) \cap DOMAIN defaults_ :
                    \E j \in 2..(i - 1) : FlagAt(j) /\ k \in KeysOf(argv_[j])
           \/ /\ e = "InvalidBooleanValue"
              /\ \E k \in DOMAIN defaults_ :
                    /\ BoolLiteralAt(i, k, p)
                    /\ LiteralAt(i, p) \notin {<<"t", "r", "u", "e">>,
                                               <<"f", "a", "l", "s", "e">>}
           \/ /\ e = "InvalidIntegerValue"
              /\ \E k \in DOMAIN defaults_ :
                    /\ FirstFlag(i, k) /\ defaults_[k].t = "int"
                    /\ \/ HasInline(t) /\ p = i
                       \/ ~HasInline(t) /\ ValueAt(i + 1) /\ p = i + 1
                    /\ ~(IsDecimal(LiteralAt(i, p)) /\ InIntRange(LiteralAt(i, p)))

HaltingErrors ==
    {"UnknownArgument", "DuplicateArgument", "InvalidBooleanValue", "InvalidIntegerValue"}

\* tokens put after the failing one: a flag, a value, an unknown flag, a
\* second occurrence
Followers == { <<"-", "n">>, <<"7">>, <<"-", "-", "z", "z">>, <<"-", "v">> }

\* the argument vector cut after position p
UpTo(args, p) == SubSeq(args, 1, p)

\* C13: when a token causes UnknownArgument, DuplicateArgument,
\* InvalidBooleanValue or InvalidIntegerValue, the call returns that failure
\* and no result map, with its iterator still at the failing token (or its
\* consumed value) and no later token examined; the outcome is the outcome of
\* the list cut after the failing token, and of that list followed by any
\* other token.
C13_FailFast ==
    \A i \in Positions : \A p \in {i, i + 1} : \A e \in HaltingErrors :
        CausesAt(i, p, e) =>
            /\ Out.kind = "err" /\ Out.error = e
            /\ Out.values = <<>>
            /\ call.it = p
            /\ \A q \in (p + 1)..Len(argv_) : call.roles[q] = "none"
            /\ ParseOf(UpTo(argv_, p)) = Out
            /\ \A t \in Followers : ParseOf(UpTo(argv_, p) \o <<t>>) = Out

\* an integer flag whose consumed literal is rejected, followed by a token
\* that is never examined
C13_Witness ==
    /\ Failed("InvalidIntegerValue", "n")
    /\ CausesAt(2, 3, "InvalidIntegerValue")
    /\ Len(argv_) = 4
    /\ call.roles[4] = "none"

\* a second occurrence of a flag, followed by a token that is never examined
C13_WitnessDuplicate ==
    /\ Failed("DuplicateArgument", "n")
    /\ CausesAt(3, 3, "DuplicateArgument")
    /\ Len(argv_) = 4
    /\ call.roles[4] = "none"
-----------------------------------------------------------------------------
(* C14 *)

\* the token at position i is a help token: exactly "-h", or exactly
\* "--help" while the long name registered for 'h' is exactly "help"
HelpTokAt(i) ==
    LET t == argv_[i]
    IN  \/ Len(t) = 2 /\ t[1] = "-" /\ t[2] = "h"
        \/ /\ Len(t) = 6
           /\ \A j \in 1..6 : t[j] = <<"-", "-", "h", "e", "l", "p">>[j]
           /\ \E k \in DOMAIN long_names_ : k = "h" /\ long_names_[k] = Help

\* C14: help detection answers true exactly when some token after the program
\* name is a help token, wherever it stands in the list and whatever parse
\* makes of the list; help_requested() reports that answer.
C14_HelpDetection ==
    /\ help_was_requested_ <=> \E i \in Positions : HelpTokAt(i)
    /\ answer.op = "help_requested" =>
          (answer.value <=> \E i \in Positions : HelpTokAt(i))

\* help was detected behind an unknown flag, on a list parse rejects at its
\* first token, and help_requested() has reported it
C14_Witness ==
    /\ Failed("UnknownArgument", "x")
    /\ argv_[2] = <<"-", "x">>
    /\ \E i \in Positions : i > 2 /\ HelpTokAt(i)
    /\ help_was_requested_
    /\ answer.op = "help_requested" /\ answer.value = TRUE

\* "--help" on a parser whose long name for 'h' is not "help": no help request
C14_WitnessNotHelp ==
    /\ Done
    /\ \E i \in Positions : argv_[i] = <<"-", "-">> \o Help
    /\ "h" \in DOMAIN long_names_ /\ long_names_["h"] # Help
    /\ ~help_was_requested_
    /\ answer.op = "help_requested" /\ answer.value = FALSE

-----------------------------------------------------------------------------
(* C15 *)

\* the caller declared 'h' in the defaults it supplied
CallerOwnsH == \E k \in DOMAIN config.defaults : k = "h"

\* the map m restricted to the keys other than k
Except(m, k) == [x \in DOMAIN m \ {k} |-> m[x]]

\* C15: when the caller's defaults have no key 'h' the parser holds 'h' with
\* the boolean default false and the long name "help", and every other flag
\* as supplied; when the caller's defaults have 'h', defaults and long names
\* are exactly the ones supplied.  This is so in every state: after
\* construction no call of operator(), help_requested() or generate_help()
\* adds or changes a flag.
C15_HelpInjection ==
    /\ ~CallerOwnsH =>
          /\ DOMAIN defaults_ = DOMAIN config.defaults \cup {"h"}
          /\ defaults_["h"] = BoolV(FALSE)
          /\ Except(defaults_, "h") = config.defaults
          /\ DOMAIN long_names_ = DOMAIN config.long_names \cup {"h"}
          /\ long_names_["h"] = Help
          /\ Except(long_names_, "h") = Except(config.long_names, "h")
    /\ CallerOwnsH =>
          /\ defaults_ = config.defaults
          /\ long_names_ = config.long_names
    /\ required_ = config.required
    /\ help_ = config.help

\* the caller's own text flag 'h' without long name "help" took a value in a
\* second call, after the accessors were used
C15_Witness ==
    /\ Succeeded
    /\ CallerOwnsH
    /\ config.defaults["h"].t = "str"
    /\ Out.values["h"] = StrV(<<"7">>)
    /\ prev = Out
    /\ answer.op = "generate_help"

\* the injected 'h' was set by "--help" in a second call
C15_WitnessInjected ==
    /\ Succeeded
    /\ ~CallerOwnsH
    /\ \E i \in Positions : argv_[i] = <<"-", "-">> \o Help /\ FlagAt(i)
    /\ Out.values["h"] = BoolV(TRUE)
    /\ prev = Out

-----------------------------------------------------------------------------
(* C16 *)

\* the caller has completed a call before the current one
CalledBefore == prev.kind # "running"

\* C16: a call of operator() returns the outcome the caller's previous call
\* on the same parser returned (same result map, or same failure kind, key
\* and detail), whatever calls of operator(), help_requested() and
\* generate_help() were made before or in between.
C16_RepeatCalls ==
    (Done /\ CalledBefore) => Out = prev

\* a second call has returned the same failure, detail included, after
\* help_requested() was asked
C16_Witness ==
    /\ Done /\ CalledBefore
    /\ Out.kind = "err" /\ Out.detail # <<>>
    /\ prev = Out
    /\ answer.op = "help_requested"

\* a second call has returned the same result map, with values taken from tokens
C16_WitnessSuccess ==
    /\ Done /\ CalledBefore
    /\ Out.kind = "ok" /\ Out.values # defaults_
    /\ prev = Out

-----------------------------------------------------------------------------
(* C17 *)

\* the members a constructed parser holds its schema and its help flag in
Members == <<defaults_, long_names_, required_, help_, help_was_requested_>>

\* the values the constructor gave the members
AsConstructed ==
    /\ defaults_ = CtorDefaults(config)
    /\ long_names_ = CtorLongNames(config)
    /\ required_ = config.required
    /\ help_ = config.help
    /\ help_was_requested_ = \E i \in Positions : HelpTokAt(i)

\* C17: no step of a call of operator(), successful or failing, and no call
\* of help_requested(), generate_help() or report_error() changes defaults_,
\* long_names_, required_, help_ or help_was_requested_; they hold the values
\* the constructor gave them in every state.
C17_MembersUnchanged ==
    /\ []AsConstructed
    /\ [][Members' = Members]_vars

\* a failing call that has seen flag 'h' returned, on a parser whose help
\* flag is false, after a call of generate_help()
C17_Witness ==
    /\ Done /\ CalledBefore
    /\ Out.kind = "err"
    /\ "h" \in call.seen_args
    /\ ~help_was_requested_
    /\ answer.op = "generate_help"

\* a successful call that has seen flag 'h' returned, on a parser whose help
\* flag is false
C17_WitnessSuccess ==
    /\ Succeeded /\ CalledBefore
    /\ "h" \in call.seen_args
    /\ ~help_was_requested_

\* a failure was reported, to std::cerr and with the help text to std::cout,
\* on a parser whose help flag is false, and a further call has returned
C17_WitnessReported ==
    /\ Done /\ CalledBefore
    /\ ~help_was_requested_
    /\ Reports = 1
    /\ cout = generate_help(CtorDefaults(config), CtorLongNames(config), config.required,
                            config.help, argv_[1])

-----------------------------------------------------------------------------
(* C18 *)

\* the failure kinds operator() returns
ReturnedErrors ==
    {"UnknownArgument", "MissingRequiredArgument", "MissingValue",
     "InvalidBooleanValue", "InvalidIntegerValue", "DuplicateArgument"}

\* the variants a default can hold
Variants == {"int", "bool", "str"}

\* C18: for every schema whose defaults hold integers, booleans and texts,
\* every failure a call returns is UnknownArgument, MissingRequiredArgument,
\* MissingValue, InvalidBooleanValue, InvalidIntegerValue or
\* DuplicateArgument; TypeMismatch and InvalidArguments are never returned.
C18_ErrorKinds ==
    (\A k \in DOMAIN defaults_ : defaults_[k].t \in Variants) =>
        \A o \in {Out, prev} :
            o.kind = "err" =>
                /\ o.error \in ReturnedErrors
                /\ o.error \notin {"TypeMismatch", "InvalidArguments"}

\* a text flag went through the coercion, inline, and the call then failed
\* on a flag of another type
C18_Witness ==
    /\ Done
    /\ \E i \in Positions, k \in DOMAIN defaults_ :
          FirstFlag(i, k) /\ defaults_[k].t = "str" /\ HasInline(argv_[i])
          /\ call.result[k] = StrV(InlineOf(argv_[i]))
    /\ Out.kind = "err" /\ Out.error \in {"InvalidBooleanValue", "InvalidIntegerValue"}

\* a call that succeeded with a text flag taken from the next token
C18_WitnessText ==
    /\ Succeeded
    /\ \E i \in Positions, k \in DOMAIN defaults_ :
          FirstFlag(i, k) /\ defaults_[k].t = "str" /\ ValueAt(i + 1)
          /\ Out.values[k] = StrV(argv_[i + 1])

-----------------------------------------------------------------------------
(* C19 *)

\* the argument vector with the program name q
Named(args, q) == [args EXCEPT ![1] = q]

\* C19: the first element of the argument vector is never examined by
\* operator() and has no part in help detection: for every program name,
\* one that looks like a flag, an unknown flag or a help token included, the
\* call returns what it returns for any other program name with the same
\* tokens after it, and help detection gives the same answer.
C19_ProgramName ==
    /\ call.roles[1] = "prog"
    /\ \A q \in ProgNames :
          /\ Done => ParseOf(Named(argv_, q)) = Out
          /\ has_help_request(long_names_, Named(argv_, q)) = help_was_requested_

\* a program name "-x" before tokens that parse: the call succeeded and no
\* help was detected
C19_Witness ==
    /\ Succeeded
    /\ argv_[1] = <<"-", "x">>
    /\ "x" \notin DOMAIN defaults_
    /\ \E i \in Positions : FlagAt(i)
    /\ ~help_was_requested_

\* a program name "-h" (a help token, were it not the program name): no
\* help was detected and the call succeeded
C19_WitnessHelpName ==
    /\ Succeeded
    /\ argv_[1] = <<"-", "h">>
    /\ ~help_was_requested_
    /\ \E i \in Positions : FlagAt(i) /\ argv_[i] = <<"-", "n", "=", "7">>

-----------------------------------------------------------------------------
(* C20 *)

\* what a call returns when it runs alone
Alone == ParseOf(argv_)

\* the step is a step of the first caller, of the second caller
StepOf1 == <<pc, call>>' # <<pc, call>>
StepOf2 == <<pc2, call2>>' # <<pc2, call2>>

\* C20: under every interleaving of the steps of two concurrent calls of
\* operator() on one parser, each call returns what it returns when it runs
\* alone; no step changes a member of the parser, and a step of one call
\* leaves the other call's result map, seen-set and iterator as they are.
C20_Concurrent ==
    /\ [](pc = "done" => Out = Alone)
    /\ [](pc2 = "done" => call2.outcome = Alone)
    /\ [][ /\ schema' = schema
           /\ StepOf1 => call2' = call2 /\ pc2' = pc2
           /\ StepOf2 => call' = call /\ pc' = pc ]_vars

\* the first call has returned a result map while the second, started later,
\* is in the middle of its loop with a flag already seen
C20_Witness ==
    /\ pc = "done" /\ Out.kind = "ok" /\ Out.values # defaults_
    /\ pc2 = "loop"
    /\ call2.it > 2 /\ call2.it <= Len(argv_)
    /\ call2.seen_args # {}
    /\ call2.result # call.result

\* both calls are inside their loops at different tokens
C20_WitnessBoth ==
    /\ pc = "loop" /\ pc2 = "loop"
    /\ call.it # call2.it
    /\ call.seen_args # {} /\ call2.seen_args = {}

-----------------------------------------------------------------------------
(* C21 *)

\* the positions a call has examined, as a flag, a consumed value or a
\* skipped token
Examined(c) == {i \in 2..Len(argv_) : c.roles[i] # "none"}

\* a loop iteration after which the loop goes on
Iterates == pc = "loop" /\ pc' = "loop"

\* a step of the call between its entry and its return
InCall == pc = "loop" /\ pc' \in {"loop", "done"}

\* C21: a call of operator() terminates: every loop iteration that does not
\* return moves the iterator forward, by one or two positions and never past
\* the end by more than one; a position once examined keeps its one role (flag,
\* consumed value or skipped) and only positions from the iterator on are
\* examined; a call that has entered the loop reaches its return, and it
\* returns a success or a failure.
C21_Terminates ==
    /\ [][Iterates => /\ call'.it > call.it
                      /\ call'.it <= call.it + 2
                      /\ call'.it <= Len(argv_) + 1]_vars
    /\ [][InCall => /\ \A i \in Examined(call) : call'.roles[i] = call.roles[i]
                    /\ \A i \in Examined(call') \ Examined(call) : i >= call.it]_vars
    /\ [](pc = "done" => Out.kind \in {"ok", "err"})
    /\ (pc = "loop") ~> (pc = "done")

\* a call has returned after examining all three tokens of its list: one
\* skipped, one as a flag, one as that flag's value
C21_Witness ==
    /\ Done
    /\ Len(argv_) = 4
    /\ call.it = 5
    /\ \E i, j \in Positions :
          call.roles[i] = "skip" /\ call.roles[j] = "flag" /\ call.roles[j + 1] = "value"

-----------------------------------------------------------------------------
(* C22 *)

\* the token at position p begins with '-' and was consumed as the value of
\* the flag token before it, which names the declared key k
DashValueAt(p, k) ==
    /\ ValueAt(p)
    /\ Len(argv_[p]) >= 2 /\ argv_[p][1] = "-"
    /\ FirstFlag(p - 1, k)

\* the key j is named by a token examined as a flag
NamedByFlag(j) == \E i \in Positions : FlagAt(i) /\ j \in KeysOf(argv_[i])

\* C22: a token consumed as a flag's value is taken verbatim even when it
\* begins with '-' or spells a flag: a text flag holds the token itself, an
\* integer flag the number it denotes (and the call fails with the coercion
\* failure, the token as detail, when it denotes none); the call does not
\* fail at it with UnknownArgument or DuplicateArgument; the key it spells is
\* in the seen-set only when a flag token names it, so it neither stands for a
\* required flag nor makes a later flag token of that key a duplicate.
C22_ValueVerbatim ==
    /\ call.seen_args = {j \in DOMAIN defaults_ : NamedByFlag(j)}
    /\ Out.kind = "ok" => \A j \in required_ : NamedByFlag(j)
    /\ \A p \in Positions : \A k \in DOMAIN defaults_ :
          DashValueAt(p, k) =>
              LET t == argv_[p]
              IN  /\ defaults_[k].t = "str" =>
                        call.it > p /\ call.result[k] = StrV(t)
                  /\ (defaults_[k].t = "int" /\ IsDecimal(t) /\ InIntRange(t)) =>
                        call.it > p /\ call.result[k] = IntV(Denoted(t))
                  /\ (defaults_[k].t = "int" /\ ~(IsDecimal(t) /\ InIntRange(t))) =>
                        call.it = p /\ Out = Unexpected("InvalidIntegerValue", k, t)
                  /\ defaults_[k].t = "bool" =>
                        call.it = p /\ Out = Unexpected("InvalidBooleanValue", k, t)
                  /\ call.roles[p] # "flag"
                  /\ ~(call.it = p /\ Out.kind = "err"
                       /\ Out.error \in {"UnknownArgument", "DuplicateArgument"})
                  /\ \A q \in (p + 1)..Len(argv_) : \A j \in KeysOf(t) :
                        FirstFlag(q, j) =>
                            ~(call.it = q /\ Out.kind = "err"
                              /\ Out.error = "DuplicateArgument")

\* `-n -5` gave n = -5
C22_Witness ==
    /\ Succeeded
    /\ DashValueAt(3, "n")
    /\ argv_[3] = <<"-", "5">>
    /\ Out.values["n"] = IntV(-5)

\* a text flag took "-n" as its value, and the call failed because the
\* required flag n was never given
C22_WitnessRequired ==
    /\ Failed("MissingRequiredArgument", "n")
    /\ DashValueAt(3, "f")
    /\ argv_[3] = <<"-", "n">>
    /\ call.result["f"] = StrV(<<"-", "n">>)

\* a text flag took "-n" as its value, and a later flag token for n was
\* accepted
C22_WitnessNoDuplicate ==
    /\ Succeeded
    /\ DashValueAt(3, "f")
    /\ argv_[3] = <<"-", "n">>
    /\ FirstFlag(4, "n")
    /\ Out.values["n"] = IntV(7)

\* a text flag took an undeclared flag as its value
C22_WitnessUnknown ==
    /\ Succeeded
    /\ DashValueAt(3, "f")
    /\ KeysOf(argv_[3]) \cap DOMAIN defaults_ = {}
    /\ Out.values["f"] = StrV(argv_[3])

-----------------------------------------------------------------------------
(* C23 *)

\* the positions of '=' in the token t
EqualsIn(t) == {j \in 1..Len(t) : t[j] = "="}

\* the long-form token t, cut at its first '=': the text between "--" and
\* that '=', and the text after it
IsLongInline(t) == IsLongTok(t) /\ EqualsIn(t) # {}
FirstEquals(t) == CHOOSE j \in EqualsIn(t) : \A o \in EqualsIn(t) : j <= o
NamePart(t) == [j \in 1..(FirstEquals(t) - 3) |-> t[j + 2]]
ValuePart(t) == [j \in 1..(Len(t) - FirstEquals(t)) |-> t[j + FirstEquals(t)]]

\* the short-form token t has '=' at index 2; the text from index 3 on
IsShortInline(t) == IsShortTok(t) /\ Len(t) >= 3 /\ t[3] = "="
ShortValuePart(t) == [j \in 1..(Len(t) - 3) |-> t[j + 3]]

\* the flag k, given for the first time at position i, gets the inline literal v
CoercedInline(i, k, v) ==
    /\ ~ValueAt(i + 1)
    /\ defaults_[k].t = "str" =>
          call.it > i /\ call.result[k] = StrV(v)
    /\ (defaults_[k].t = "int" /\ IsDecimal(v) /\ InIntRange(v)) =>
          call.it > i /\ call.result[k] = IntV(Denoted(v))
    /\ (defaults_[k].t = "int" /\ ~(IsDecimal(v) /\ InIntRange(v))) =>
          call.it = i /\ Out = Unexpected("InvalidIntegerValue", k, v)
    /\ (defaults_[k].t = "bool" /\ v = <<"t", "r", "u", "e">>) =>
          call.it > i /\ call.result[k] = BoolV(TRUE)
    /\ (defaults_[k].t = "bool" /\ v = <<"f", "a", "l", "s", "e">>) =>
          call.it > i /\ call.result[k] = BoolV(FALSE)
    /\ (defaults_[k].t = "bool"
            /\ v \notin {<<"t", "r", "u", "e">>, <<"f", "a", "l", "s", "e">>}) =>
          call.it = i /\ Out = Unexpected("InvalidBooleanValue", k, v)

\* no earlier token examined as a flag names k
NotYetNamed(i, k) == \A j \in 2..(i - 1) : ~(FlagAt(j) /\ k \in KeysOf(argv_[j]))

\* C23: a long-form token with '=' names the flag whose long name is the
\* text between "--" and the first '=', and gives it everything after that
\* '=' as inline value, further '=' characters and the empty string
\* included; a short-form token with '=' at index 2 gives its flag everything
\* from index 3 on.  The inline value is coerced as any literal: an empty one
\* is the empty string for a text flag and a coercion failure for an integer
\* or boolean flag.  The next token is not consumed.
C23_InlineSplit ==
    \A i \in Positions : \A k \in DOMAIN defaults_ :
        LET t == argv_[i]
        IN  /\ (FlagAt(i) /\ IsLongInline(t) /\ NotYetNamed(i, k)
                  /\ k \in DOMAIN long_names_ /\ long_names_[k] = NamePart(t)) =>
                  CoercedInline(i, k, ValuePart(t))
            /\ (FlagAt(i) /\ IsShortInline(t) /\ NotYetNamed(i, k) /\ t[2] = k) =>
                  CoercedInline(i, k, ShortValuePart(t))

\* `--host=a=b` gave the text flag the value "a=b"
C23_Witness ==
    /\ Succeeded
    /\ \E i \in Positions :
          /\ FlagAt(i) /\ IsLongInline(argv_[i])
          /\ ValuePart(argv_[i]) = <<"a", "=", "b">>
          /\ NamePart(argv_[i]) = long_names_["h"]
    /\ Out.values["h"] = StrV(<<"a", "=", "b">>)

\* an empty inline value: the empty string for a text flag in one call, a
\* coercion failure for an integer flag after it
C23_WitnessEmpty ==
    /\ Failed("InvalidIntegerValue", "n")
    /\ Out.detail = <<>>
    /\ \E i, j \in Positions :
          /\ i < j
          /\ FlagAt(i) /\ IsShortInline(argv_[i]) /\ ShortValuePart(argv_[i]) = <<>>
          /\ defaults_[argv_[i][2]].t = "str"
          /\ call.result[argv_[i][2]] = StrV(<<>>)
          /\ FlagAt(j) /\ IsLongInline(argv_[j]) /\ ValuePart(argv_[j]) = <<>>

\* a long-form integer literal with a second '=': the value is "7=5"
C23_WitnessSecondEquals ==
    /\ Failed("InvalidIntegerValue", "n")
    /\ Out.detail = <<"7", "=", "5">>

-----------------------------------------------------------------------------
(* C24 *)

\* position i is examined as a flag token naming the declared key k, which
\* an earlier flag token named already
SecondFlag(i, k) ==
    /\ FlagAt(i)
    /\ KeysOf(argv_[i]) = {k}
    /\ k \in DOMAIN defaults_
    /\ \E j \in 2..(i - 1) : FlagAt(j) /\ k \in KeysOf(argv_[j])

\* the call failed at the flag token of position i or at the value it took
FailedAtFlag(i) ==
    /\ Out.kind = "err"
    /\ call.it = i \/ (call.it = i + 1 /\ ValueAt(i + 1))

\* C24: the checks of a flag token run in the order unknown key, duplicate
\* key, value.  A flag token whose key no flag declares is an
\* UnknownArgument; a second occurrence of a declared key is a
\* DuplicateArgument with no value acquired, whatever value it has or lacks; a
\* first occurrence that fails does so with MissingValue or a coercion
\* failure tagged with its key, never as a duplicate.
C24_CheckOrder ==
    \A i \in Positions :
        /\ (FlagAt(i) /\ KeysOf(argv_[i]) \cap DOMAIN defaults_ = {}) =>
              /\ call.it = i
              /\ Out.kind = "err" /\ Out.error = "UnknownArgument"
        /\ \A k \in DOMAIN defaults_ :
              /\ SecondFlag(i, k) =>
                    /\ call.it = i
                    /\ Out = Unexpected("DuplicateArgument", k, <<>>)
                    /\ ~ValueAt(i + 1)
              /\ (FirstFlag(i, k) /\ FailedAtFlag(i)) =>
                    /\ Out.error \in {"MissingValue", "InvalidIntegerValue",
                                      "InvalidBooleanValue"}
                    /\ Out.argument = k

\* a second occurrence with an invalid inline value is a duplicate
C24_Witness ==
    /\ Failed("DuplicateArgument", "n")
    /\ \E i \in Positions :
          /\ SecondFlag(i, "n")
          /\ HasInline(argv_[i]) /\ ~IsDecimal(InlineOf(argv_[i]))

\* a second occurrence that needs a value and is the last token is a duplicate
C24_WitnessNoValue ==
    /\ Failed("DuplicateArgument", "n")
    /\ SecondFlag(Len(argv_), "n")
    /\ ~HasInline(argv_[Len(argv_)])

\* a first occurrence with an invalid literal, followed by a token naming the
\* same key, is the coercion failure
C24_WitnessFirstFails ==
    /\ Failed("InvalidIntegerValue", "n")
    /\ \E i \in Positions :
          /\ FirstFlag(i, "n") /\ call.it = i
          /\ i + 1 \in Positions
          /\ "n" \in KeysOf(argv_[i + 1])

-----------------------------------------------------------------------------
(* C25 *)

\* the flag token examined at position i fails with e, at position p
TokenFails(i, p, e) ==
    \/ e \in HaltingErrors /\ CausesAt(i, p, e)
    \/ /\ e = "MissingValue" /\ p = i /\ i = Len(argv_)
       /\ \E k \in DOMAIN defaults_ : NeedsValueAt(i, k)

TokenErrors == HaltingErrors \cup {"MissingValue"}

\* C25: MissingRequiredArgument is returned only after the loop has passed
\* every token and none of them failed, and names a required key that no flag
\* token gave.  When a token fails, the call returns that token's failure,
\* with no later token processed, whether or not required flags are missing
\* and whether or not a later token names one of them.
C25_RequiredLast ==
    /\ (Out.kind = "err" /\ Out.error = "MissingRequiredArgument") =>
          /\ call.it = Len(argv_) + 1
          /\ \A q \in Positions : call.roles[q] # "none"
          /\ \A i \in Positions : \A p \in {i, i + 1} : \A e \in TokenErrors :
                ~TokenFails(i, p, e)
          /\ Out.argument \in required_
          /\ ~NamedByFlag(Out.argument)
    /\ \A i \in Positions : \A p \in {i, i + 1} : \A e \in TokenErrors :
          TokenFails(i, p, e) =>
              /\ Out.kind = "err" /\ Out.error = e
              /\ call.it = p
              /\ \A q \in (p + 1)..Len(argv_) : call.roles[q] = "none"

\* a token fails, no required flag was given before it, and a later token
\* names a required flag: the token's failure is returned
C25_Witness ==
    /\ Done
    /\ \E i \in Positions : \E e \in HaltingErrors :
          /\ TokenFails(i, i, e)
          /\ Out.error = e
          /\ \A k \in required_ : ~NamedByFlag(k)
          /\ \E q \in (i + 1)..Len(argv_) : KeysOf(argv_[q]) \cap required_ # {}

\* every token processed, a required flag missing
C25_WitnessMissing ==
    /\ Failed("MissingRequiredArgument", "v")
    /\ Len(argv_) = 4
    /\ FlagAt(2) /\ ValueAt(3) /\ call.roles[4] = "skip"

\* the last token lacks its value while another required flag is missing
C25_WitnessMissingValue ==
    /\ Failed("MissingValue", "n")
    /\ TokenFails(Len(argv_), Len(argv_), "MissingValue")
    /\ \E k \in required_ : k # "n" /\ ~NamedByFlag(k)

-----------------------------------------------------------------------------
(* C26 *)

\* a short-form token of more than two characters whose third is not '='
IsCluster(t) == IsShortTok(t) /\ Len(t) > 2 /\ t[3] # "="

\* the characters of t after its second
RestOf(t) == {t[j] : j \in 3..Len(t)}

\* the argument vector with every such token examined as a flag cut to its
\* first two characters
CutClusters ==
    [j \in 1..Len(argv_) |->
        IF FlagAt(j) /\ IsCluster(argv_[j]) THEN SubSeq(argv_[j], 1, 2) ELSE argv_[j]]

\* C26: a short-form token of more than two characters whose third is not
\* '=' is the flag named by its second character, without inline value.  An
\* undeclared second character is an UnknownArgument; a declared one given for
\* the first time takes its value as the two-character token would: an
\* integer, a text or a required boolean flag consumes the next token (or is
\* a MissingValue as last token), an optional boolean becomes true.  The
\* characters after the second name no flag and are no value: the outcome is
\* the outcome of the list with the token cut to two characters, up to the
\* token text an UnknownArgument carries.
C26_ShortCluster ==
    /\ \A i \in Positions :
          (FlagAt(i) /\ IsCluster(argv_[i])) =>
             LET t == argv_[i]
                 k == t[2]
             IN  /\ k \notin DOMAIN defaults_ =>
                       call.it = i /\ Out = Unexpected("UnknownArgument", k, t)
                 /\ (k \in DOMAIN defaults_ /\ NotYetNamed(i, k)) =>
                       /\ k \in call.seen_args
                       /\ \A o \in RestOf(t) \ {k} : o \in call.seen_args => NamedByFlag(o)
                       /\ IF defaults_[k].t = "bool" /\ k \notin required_
                          THEN /\ call.it > i
                               /\ call.result[k] = BoolV(TRUE)
                               /\ ~ValueAt(i + 1)
                          ELSE IF i = Len(argv_)
                          THEN Out = Unexpected("MissingValue", k, MissingValueDetail(defaults_, k))
                          ELSE /\ ValueAt(i + 1)
                               /\ defaults_[k].t = "str" =>
                                     call.result[k] = StrV(argv_[i + 1])
                               /\ (defaults_[k].t = "int" /\ IsDecimal(argv_[i + 1])
                                     /\ InIntRange(argv_[i + 1])) =>
                                     call.result[k] = IntV(Denoted(argv_[i + 1]))
                               /\ (defaults_[k].t = "int" /\ ~(IsDecimal(argv_[i + 1])
                                     /\ InIntRange(argv_[i + 1]))) =>
                                     Out = Unexpected("InvalidIntegerValue", k, argv_[i + 1])
    /\ Done =>
          LET cut == ParseOf(CutClusters)
          IN  /\ cut.kind = Out.kind
              /\ cut.error = Out.error
              /\ cut.argument = Out.argument
              /\ cut.values = Out.values
              /\ Out.error # "UnknownArgument" => cut.detail = Out.detail

\* `-n5 7`: n is 7, not 5
C26_Witness ==
    /\ Succeeded
    /\ \E i \in Positions :
          /\ FlagAt(i) /\ argv_[i] = <<"-", "n", "5">>
          /\ ValueAt(i + 1) /\ argv_[i + 1] = <<"7">>
    /\ Out.values["n"] = IntV(7)

\* `-vn` sets the optional boolean v and does not name n: a later `-n 7` is
\* no duplicate
C26_WitnessNoFurtherFlag ==
    /\ Succeeded
    /\ FlagAt(2) /\ argv_[2] = <<"-", "v", "n">>
    /\ FlagAt(3) /\ argv_[3] = <<"-", "n">>
    /\ Out.values["v"] = BoolV(TRUE)
    /\ Out.values["n"] = IntV(7)

\* `-vtrue` is the presence of v where v is optional
C26_WitnessNotInline ==
    /\ Succeeded
    /\ \E i \in Positions : FlagAt(i) /\ argv_[i] = <<"-", "v", "t", "r", "u", "e">>
    /\ "v" \notin required_
    /\ Out.values["v"] = BoolV(TRUE) /\ defaults_["v"] = BoolV(FALSE)

\* `-abc` is the unknown flag a
C26_WitnessUnknown ==
    /\ Failed("UnknownArgument", "a")
    /\ Out.detail = <<"-", "a", "b", "c">>

-----------------------------------------------------------------------------
(* C27 *)

\* the integer flag k, first given at position i, is supplied the literal at
\* p: inline (p = i) or as the consumed next token (p = i + 1)
IntSuppliedAt(i, k, p) ==
    /\ FirstFlag(i, k)
    /\ defaults_[k].t = "int"
    /\ \/ HasInline(argv_[i]) /\ p = i
       \/ ~HasInline(argv_[i]) /\ ValueAt(i + 1) /\ p = i + 1

\* C27: a well-formed integer literal outside the range of a 32-bit signed
\* int yields InvalidIntegerValue tagged with the flag's key, with the
\* literal as detail and no result map; a well-formed literal inside the
\* range, its two ends included, is stored as the number it denotes.  Every
\* stored integer lies in the range.
C27_IntRange ==
    /\ \A i \in Positions : \A p \in {i, i + 1} : \A k \in DOMAIN defaults_ :
          (IntSuppliedAt(i, k, p) /\ IsDecimal(LiteralAt(i, p))) =>
              LET lit == LiteralAt(i, p)
              IN  IF InIntRange(lit)
                  THEN /\ call.it > p
                       /\ call.result[k] = IntV(Denoted(lit))
                       /\ ~(Out.kind = "err" /\ Out.error = "InvalidIntegerValue"
                              /\ Out.argument = k)
                  ELSE /\ call.it = p
                       /\ Out = Unexpected("InvalidIntegerValue", k, lit)
                       /\ Out.values = <<>>
    /\ \A k \in DOMAIN call.result :
          call.result[k].t = "int" =>
              call.result[k].v >= INT_MIN /\ call.result[k].v <= INT_MAX

\* 2^31 is rejected as the consumed next token
C27_Witness ==
    /\ Failed("InvalidIntegerValue", "n")
    /\ \E i \in Positions :
          /\ IntSuppliedAt(i, "n", i + 1)
          /\ argv_[i + 1] = IntMaxLit1
    /\ Out.detail = IntMaxLit1

\* -2^31 - 1 is rejected as inline value
C27_WitnessBelow ==
    /\ Failed("InvalidIntegerValue", "n")
    /\ \E i \in Positions :
          /\ IntSuppliedAt(i, "n", i)
          /\ InlineOf(argv_[i]) = IntMinLit1

\* 2^31 - 1 is stored
C27_WitnessMax ==
    /\ Succeeded
    /\ \E i \in Positions : \E p \in {i, i + 1} :
          IntSuppliedAt(i, "n", p) /\ LiteralAt(i, p) = IntMaxLit
    /\ Out.values["n"] = IntV(INT_MAX)

\* -2^31 is stored
C27_WitnessMin ==
    /\ Succeeded
    /\ \E i \in Positions : \E p \in {i, i + 1} :
          IntSuppliedAt(i, "n", p) /\ LiteralAt(i, p) = IntMinLit
    /\ Out.values["n"] = IntV(INT_MIN)

\* 2^32 + 7 is rejected, not read as 7
C27_WitnessWrap ==
    /\ Failed("InvalidIntegerValue", "n")
    /\ Out.detail = WrapLit

-----------------------------------------------------------------------------
(* C28 *)

\* the required keys that defaults_ does not declare
Undeclared == required_ \ DOMAIN defaults_

\* the key x is supplied as a flag: a token examined as a flag names it
SuppliedAt(i, x) == FlagAt(i) /\ x \in KeysOf(argv_[i])

\* C28: with a required key x that defaults does not declare, no call ever
\* succeeds.  A finished call has failed: with UnknownArgument tagged with x
\* and carrying the token, at the flag token that supplies x; and when no
\* token examined as a flag supplies x, with MissingRequiredArgument for a
\* required key after every token was processed, or with the failure of a
\* token that precedes every token naming x that was not taken as a value.
C28_RequiredUndeclared ==
    Undeclared # {} =>
        /\ Out.kind # "ok"
        /\ Done =>
              /\ Out.kind = "err"
              /\ \A x \in Undeclared :
                    IF \E i \in Positions : SuppliedAt(i, x)
                    THEN /\ SuppliedAt(call.it, x)
                         /\ Out = Unexpected("UnknownArgument", x, argv_[call.it])
                    ELSE \/ /\ Out.error = "MissingRequiredArgument"
                            /\ Out.argument \in required_
                            /\ call.it = Len(argv_) + 1
                         \/ \E i \in Positions : \E p \in {i, i + 1} : \E e \in TokenErrors :
                               /\ TokenFails(i, p, e)
                               /\ Out.error = e
                               /\ call.it = p
                               /\ \A q \in Positions :
                                     (x \in KeysOf(argv_[q]) /\ ~ValueAt(q)) => q > p

\* the undeclared key supplied after a well-formed flag
C28_Witness ==
    /\ Failed("UnknownArgument", "x")
    /\ FlagAt(2) /\ ValueAt(3) /\ SuppliedAt(4, "x")
    /\ "x" \in Undeclared

\* supplied by its long name
C28_WitnessLong ==
    /\ Failed("UnknownArgument", "x")
    /\ "x" \in Undeclared
    /\ \E i \in Positions : SuppliedAt(i, "x") /\ IsLongTok(argv_[i])
    /\ Out.detail = <<"-", "-", "e", "x">>

\* never supplied, every other required key given
C28_WitnessMissing ==
    /\ Failed("MissingRequiredArgument", "x")
    /\ "x" \in Undeclared
    /\ \A k \in required_ \ {"x"} : NamedByFlag(k)
    /\ required_ # {"x"}

\* the token `-x` taken as the value of an earlier flag, which fails on it
C28_WitnessEarlier ==
    /\ Failed("InvalidIntegerValue", "n")
    /\ "x" \in Undeclared
    /\ \E i \in Positions : ValueAt(i) /\ argv_[i] = <<"-", "x">>

=============================================================================
